---- MODULE Spec2Model ----
(***************************************************************************)
(* Model of the explore subsystem of the observability server:             *)
(*   - the structured query builder (ClickHouseClient.ExecuteExploreQuery) *)
(*     reached through the HTTP handler and through ExploreService,        *)
(*   - the raw SQL gateway (ExploreHandler.ExecuteRawSQL),                 *)
(*   - the SQL autocomplete engine (getAutocompleteSuggestions).           *)
(* Every request is handled synchronously and independently: the server    *)
(* is idle, a handler runs to completion on one request, the server        *)
(* returns to idle.                                                        *)
(*                                                                         *)
(* SQL text of the builder is a sequence of tokens; free text (raw SQL,    *)
(* autocomplete queries) is a sequence of one-character strings.           *)
(***************************************************************************)
EXTENDS Integers, Sequences, FiniteSets, TLC

VARIABLES
    pc,        \* "idle" | "done": position of the request loop
    op,        \* the handler / operation that ran for the current request
    bodyOk,    \* whether the JSON body of the request decoded
    req,       \* the decoded request
    env,       \* what the engine answers to the calls of this request
    engine,    \* the engine calls made for the current request, in order
    client,    \* result of the ClickHouseClient call made (or NoCall)
    status,    \* HTTP status of the response (0: none yet, or not HTTP)
    result,    \* the value returned / response body
    router     \* the router NewRouter built: the client it holds, its routes

vars == <<pc, op, bodyOk, req, env, engine, client, status, result, router>>

----------------------------------------------------------------------------
(* Bounds of the model                                                     *)

MaxFields == 2
MaxGroupBy == 2
MaxTables == 2
MaxColumns == 2
MaxOvershoot == 1
MaxRows == 2
MaxCalls == 3

(* Program constants                                                       *)

DefaultLimit == 1000
MaxSuggestions == 20
ValidationMaxLimit == 10000
StatusOK == 200
StatusBadRequest == 400
StatusInternalServerError == 500
Top100Limit == 100

Nil == "nil"
NoCall == [called |-> FALSE]
NoRequest == [none |-> TRUE]
NoEnv == [none |-> TRUE]

----------------------------------------------------------------------------
(* Generic helpers                                                         *)

RECURSIVE JoinComma(_)
JoinComma(s) ==
    IF Len(s) = 0 THEN <<>>
    ELSE IF Len(s) = 1 THEN <<s[1]>>
    ELSE <<s[1], ",">> \o JoinComma(Tail(s))

RECURSIVE PrefixEachComma(_)
PrefixEachComma(s) ==
    IF Len(s) = 0 THEN <<>>
    ELSE <<",", s[1]>> \o PrefixEachComma(Tail(s))

Prefixes(s, n) == { SubSeq(s, 1, k) : k \in 0..(IF n < Len(s) THEN n ELSE Len(s)) }

Placeholder_AlwaysFirst(i) == "$1"

Placeholder(i) == "$" \o ToString(i)

----------------------------------------------------------------------------
(* The engine: what conn.Query answers                                     *)

(* A value the driver leaves in a scan target: its Go type and the value. *)
GoValue(go, val) == [go |-> go, val |-> val]

(* A column of a result set: its name and the engine's declared type tag.  *)
Column(name, type) == [name |-> name, type |-> type]

(* A row of the result stream either scans or fails to scan; cells holds   *)
(* the scanned value of each column; id is the row's place in the stream.  *)
Row(id, ok, cells) == [id |-> id, scanOk |-> ok, cells |-> cells]

(* The engine's type names (DatabaseTypeName) of the model.                *)
TypeTag ==
    [String |-> <<"S", "t", "r", "i", "n", "g">>,
     DateTime64Milli |-> <<"D", "a", "t", "e", "T", "i", "m", "e", "6", "4", "(", "3", ")">>,
     DateTime64Nano |-> <<"D", "a", "t", "e", "T", "i", "m", "e", "6", "4", "(", "9", ")">>,
     DateTime |-> <<"D", "a", "t", "e", "T", "i", "m", "e">>,
     Date |-> <<"D", "a", "t", "e">>,
     FixedString |-> <<"F", "i", "x", "e", "d", "S", "t", "r", "i", "n", "g", "(", "8", ")">>,
     LowCardinality |-> <<"L", "o", "w", "C", "a", "r", "d", "i", "n", "a", "l", "i", "t", "y", "(", "S", "t", "r", "i", "n", "g", ")">>,
     Int8 |-> <<"I", "n", "t", "8">>,
     Int16 |-> <<"I", "n", "t", "1", "6">>,
     Int32 |-> <<"I", "n", "t", "3", "2">>,
     Int64 |-> <<"I", "n", "t", "6", "4">>,
     UInt8 |-> <<"U", "I", "n", "t", "8">>,
     UInt16 |-> <<"U", "I", "n", "t", "1", "6">>,
     UInt32 |-> <<"U", "I", "n", "t", "3", "2">>,
     UInt64 |-> <<"U", "I", "n", "t", "6", "4">>,
     Float32 |-> <<"F", "l", "o", "a", "t", "3", "2">>,
     Float64 |-> <<"F", "l", "o", "a", "t", "6", "4">>,
     Bool |-> <<"B", "o", "o", "l">>,
     UUID |-> <<"U", "U", "I", "D">>,
     Array |-> <<"A", "r", "r", "a", "y", "(", "S", "t", "r", "i", "n", "g", ")">>,
     Map |-> <<"M", "a", "p", "(", "S", "t", "r", "i", "n", "g", ",", " ", "S", "t", "r", "i", "n", "g", ")">>,
     DateTimeZone |-> <<"D", "a", "t", "e", "T", "i", "m", "e", "(", "'", "U", "T", "C", "'", ")">>,
     Date32 |-> <<"D", "a", "t", "e", "3", "2">>,
     Nullable |-> <<"N", "u", "l", "l", "a", "b", "l", "e", "(", "S", "t", "r", "i", "n", "g", ")">>,
     Decimal |-> <<"D", "e", "c", "i", "m", "a", "l", "(", "1", "0", ",", " ", "2", ")">>]

(* The prefixes the decoder tests type names for.                          *)
TagPrefix ==
    [DateTime64 |-> <<"D", "a", "t", "e", "T", "i", "m", "e", "6", "4">>,
     FixedString |-> <<"F", "i", "x", "e", "d", "S", "t", "r", "i", "n", "g">>,
     Array |-> <<"A", "r", "r", "a", "y", "(">>,
     Map |-> <<"M", "a", "p", "(">>]

BodyColumn == Column("body", TypeTag.String)

EngineOK == [queryErr |-> FALSE, rowsErr |-> FALSE, columns |-> <<BodyColumn>>,
             rows |-> <<Row(1, TRUE, <<GoValue("string", "a")>>),
                        Row(2, FALSE, <<GoValue("string", "b")>>),
                        Row(3, TRUE, <<GoValue("string", "")>>)>>]
EngineQueryError == [queryErr |-> TRUE, rowsErr |-> FALSE, columns |-> <<>>,
                     rows |-> <<>>]
EngineRowsError == [queryErr |-> FALSE, rowsErr |-> TRUE, columns |-> <<BodyColumn>>,
                    rows |-> <<Row(1, TRUE, <<GoValue("string", "a")>>)>>]

ExploreOutcomes == {EngineOK, EngineQueryError, EngineRowsError}

RECURSIVE ScanRows_StopAtFailure(_)
ScanRows_StopAtFailure(rows) ==
    IF rows = <<>> \/ ~Head(rows).scanOk THEN <<>>
    ELSE <<Head(rows)>> \o ScanRows_StopAtFailure(Tail(rows))

(* Rows that scanned, in stream order.                                     *)
ScanRows(rows) == SelectSeq(rows, LAMBDA r : r.scanOk)

ColumnNames(columns) == [i \in 1..Len(columns) |-> columns[i].name]

(* row[col] = val for each column in turn: a map keyed by column name, in  *)
(* which a later column of the same name replaces an earlier one.          *)
RowMap(columns, vals) ==
    [n \in {columns[i].name : i \in 1..Len(columns)} |->
        LET last == CHOOSE i \in 1..Len(columns) :
                        /\ columns[i].name = n
                        /\ \A j \in (i + 1)..Len(columns) : columns[j].name # n
        IN vals[last]]

(* The generic scan loop of ExecuteExploreQuery: values pass through.      *)
GenericRows(columns, rows) ==
    LET scanned == ScanRows(rows)
    IN [i \in 1..Len(scanned) |->
           [id |-> scanned[i].id, values |-> RowMap(columns, scanned[i].cells)]]

----------------------------------------------------------------------------
(* ExploreRequest                                                          *)

Databases == {"", "default"}
Tables == {"", "otel_logs"}
FieldColumns == <<"level", "body", "ts", "svc">>
GroupColumns == <<"body", "svc", "host", "pod">>
FieldLists == Prefixes(FieldColumns, MaxFields)
GroupByLists == Prefixes(GroupColumns, MaxGroupBy)
Aggregates == {"", "count", "sum", "avg", "min", "max", "median"}
OrderBys == {"", "ts"}
OrderDirs == {"", "desc", "up"}
FilterBys == {"", "level"}
FilterOps == {"", "eq", "ne", "gt", "lt", "gte", "lte", "like", "regex"}
FilterVals == {"", "error"}
Limits == {-1, 0, 5, 10000, 10001}

ExploreRequests ==
    [database : Databases, table : Tables, fields : FieldLists,
     aggregate : Aggregates, groupBy : GroupByLists,
     orderBy : OrderBys, orderDir : OrderDirs,
     filterBy : FilterBys, filterOp : FilterOps, filterVal : FilterVals,
     limit : Limits]

(* The zero value of the struct: what a body that fails to decode leaves.  *)
ZeroExploreRequest ==
    [database |-> "", table |-> "", fields |-> <<>>, aggregate |-> "",
     groupBy |-> <<>>, orderBy |-> "", orderDir |-> "", filterBy |-> "",
     filterOp |-> "", filterVal |-> "", limit |-> 0]

----------------------------------------------------------------------------
(* ExploreService.ValidateExploreRequest: the error, or Nil                *)

ValidAggregates == {"count", "sum", "avg", "min", "max"}
ValidOps == {"eq", "ne", "gt", "lt", "gte", "lte", "like"}

(* Variant: the ceiling itself is rejected.                                *)
ValidateExploreRequest_CeilingExcluded(r) ==
    IF r.database = "" THEN "database is required"
    ELSE IF r.table = "" THEN "table is required"
    ELSE IF r.aggregate # "" /\ r.aggregate \notin ValidAggregates
        THEN "invalid aggregate function"
    ELSE IF r.aggregate # "" /\ r.aggregate # "count" /\ Len(r.fields) = 0
        THEN "fields are required for aggregate function"
    ELSE IF r.filterOp # "" /\ r.filterOp \notin ValidOps
        THEN "invalid filter operation"
    ELSE IF r.filterOp # "" /\ (r.filterBy = "" \/ r.filterVal = "")
        THEN "filter field and value are required when filter operation is specified"
    ELSE IF r.orderDir # "" /\ r.orderDir # "asc" /\ r.orderDir # "desc"
        THEN "invalid order direction"
    ELSE IF r.limit < 0 THEN "limit cannot be negative"
    ELSE IF r.limit >= ValidationMaxLimit THEN "limit cannot exceed 10000 rows"
    ELSE Nil

ValidateExploreRequest(r) ==
    IF r.database = "" THEN "database is required"
    ELSE IF r.table = "" THEN "table is required"
    ELSE IF r.aggregate # "" /\ r.aggregate \notin ValidAggregates
        THEN "invalid aggregate function"
    ELSE IF r.aggregate # "" /\ r.aggregate # "count" /\ Len(r.fields) = 0
        THEN "fields are required for aggregate function"
    ELSE IF r.filterOp # "" /\ r.filterOp \notin ValidOps
        THEN "invalid filter operation"
    ELSE IF r.filterOp # "" /\ (r.filterBy = "" \/ r.filterVal = "")
        THEN "filter field and value are required when filter operation is specified"
    ELSE IF r.orderDir # "" /\ r.orderDir # "asc" /\ r.orderDir # "desc"
        THEN "invalid order direction"
    ELSE IF r.limit < 0 THEN "limit cannot be negative"
    ELSE IF r.limit > ValidationMaxLimit THEN "limit cannot exceed 10000 rows"
    ELSE Nil

----------------------------------------------------------------------------
(* ClickHouseClient.ExecuteExploreQuery                                    *)

(* Variant: the alias does not name the field.                             *)
AggregateExpr_AliasOnly(fn, alias, f) ==
    <<fn \o "(" \o f \o ")", "as", alias>>

AggregateExpr(fn, alias, f) ==
    <<fn \o "(" \o f \o ")", "as", alias \o "_" \o f>>

(* The SELECT list: [err, sel].                                            *)
SelectClause(r) ==
    IF r.aggregate # "" /\ Len(r.fields) > 0 THEN
        LET f == r.fields[1]
            agg == CASE r.aggregate = "count" -> <<"COUNT(*)", "as", "count">>
                     [] r.aggregate = "sum" -> AggregateExpr("SUM", "sum", f)
                     [] r.aggregate = "avg" -> AggregateExpr("AVG", "avg", f)
                     [] r.aggregate = "min" -> AggregateExpr("MIN", "min", f)
                     [] r.aggregate = "max" -> AggregateExpr("MAX", "max", f)
                     [] OTHER -> <<>>
        IN IF r.aggregate \notin {"count", "sum", "avg", "min", "max"}
           THEN [err |-> "unsupported aggregate function", sel |-> <<>>]
           ELSE [err |-> Nil, sel |-> agg \o PrefixEachComma(r.groupBy)]
    ELSE IF Len(r.fields) = 0 THEN [err |-> Nil, sel |-> <<"*">>]
    ELSE [err |-> Nil, sel |-> JoinComma(r.fields)]

FilterOperator(fop) ==
    CASE fop = "eq" -> "="
      [] fop = "ne" -> "!="
      [] fop = "gt" -> ">"
      [] fop = "lt" -> "<"
      [] fop = "gte" -> ">="
      [] fop = "lte" -> "<="
      [] fop = "like" -> "LIKE"
      [] OTHER -> ""

(* Variant: the like value is bound as given.                              *)
FilterArg_NotWrapped(r) == r.filterVal

(* The bound filter value: wrapped for like.                               *)
FilterArg(r) ==
    IF r.filterOp = "like" THEN "%" \o r.filterVal \o "%" ELSE r.filterVal

(* The WHERE clause: [err, text, args].                                    *)
WhereClause(r, argIndex) ==
    IF r.filterBy # "" /\ r.filterOp # "" /\ r.filterVal # "" THEN
        IF FilterOperator(r.filterOp) = ""
        THEN [err |-> "unsupported filter operation", text |-> <<>>, args |-> <<>>]
        ELSE [err |-> Nil,
              text |-> <<"WHERE", r.filterBy, FilterOperator(r.filterOp),
                         Placeholder(argIndex)>>,
              args |-> <<FilterArg(r)>>]
    ELSE [err |-> Nil, text |-> <<>>, args |-> <<>>]

(* Variant: only the first group-by column is grouped on.                  *)
GroupByClause_FirstOnly(r) ==
    IF Len(r.groupBy) > 0 THEN <<"GROUP BY", r.groupBy[1]>> ELSE <<>>

GroupByClause(r) ==
    IF Len(r.groupBy) > 0 THEN <<"GROUP BY">> \o JoinComma(r.groupBy) ELSE <<>>

OrderByClause(r) ==
    IF r.orderBy # ""
    THEN <<"ORDER BY", r.orderBy, IF r.orderDir = "desc" THEN "DESC" ELSE "ASC">>
    ELSE <<>>

(* Variant: the fallback is the convenience constructor's default.         *)
LimitClause_ConstructorDefault(r, argIndex) ==
    IF r.limit > 0
    THEN [text |-> <<"LIMIT", Placeholder(argIndex)>>, args |-> <<r.limit>>]
    ELSE [text |-> <<"LIMIT", Placeholder(argIndex)>>, args |-> <<100>>]

(* The LIMIT clause: [text, args].                                         *)
LimitClause(r, argIndex) ==
    IF r.limit > 0
    THEN [text |-> <<"LIMIT", Placeholder(argIndex)>>, args |-> <<r.limit>>]
    ELSE [text |-> <<"LIMIT", Placeholder(argIndex)>>, args |-> <<DefaultLimit>>]

(* The callee's copy of the request when the call returns: its filterVal   *)
(* is overwritten with the wrapped value on the like branch.               *)
CalleeRequest(r) ==
    IF WhereClause(r, 1).args # <<>> /\ r.filterOp = "like"
    THEN [r EXCEPT !.filterVal = "%" \o r.filterVal \o "%"]
    ELSE r

(* Variant: the request is passed by reference.                            *)
CallerRequest_ByReference(callerReq, calleeReq) == calleeReq

(* The caller's request after the call: the request is passed by value.    *)
CallerRequest(callerReq, calleeReq) == callerReq

ExploreResponse_EngineRowCount(columns, rows) ==
    [columns |-> ColumnNames(columns),
     data |-> GenericRows(columns, rows),
     total |-> Len(rows)]

(* The response of a query that ran: the rows decoded and their number.    *)
ExploreResponse(columns, rows) ==
    [columns |-> ColumnNames(columns),
     data |-> GenericRows(columns, rows),
     total |-> Len(GenericRows(columns, rows))]

ClientError(e) ==
    [called |-> TRUE, err |-> e, calls |-> <<>>, resp |-> Nil]

(* The whole call: the error or the response, and the engine calls made.   *)
ClientExecuteExploreQuery(r, e) ==
    IF r.database = "" \/ r.table = ""
    THEN ClientError("database and table are required")
    ELSE LET s == SelectClause(r) IN
    IF s.err # Nil THEN ClientError(s.err)
    ELSE LET w == WhereClause(r, 1) IN
    IF w.err # Nil THEN ClientError(w.err)
    ELSE LET argIndex == 1 + Len(w.args)
             l == LimitClause(r, argIndex)
             query == <<"SELECT">> \o s.sel
                        \o <<"FROM", r.database \o "." \o r.table>>
                        \o w.text \o GroupByClause(r) \o OrderByClause(r)
                        \o l.text
             args == w.args \o l.args
             call == [fn |-> "conn.Query", query |-> query, args |-> args]
         IN IF e.queryErr
            THEN [called |-> TRUE, err |-> "failed to execute explore query",
                  calls |-> <<call>>, resp |-> Nil]
            ELSE IF e.rowsErr
            THEN [called |-> TRUE, err |-> "error iterating rows",
                  calls |-> <<call>>, resp |-> Nil]
            ELSE [called |-> TRUE, err |-> Nil, calls |-> <<call>>,
                  resp |-> ExploreResponse(e.columns, e.rows)]

----------------------------------------------------------------------------
(* Text: a Go string is a sequence of one-character strings                *)

LowerLetters == <<"a", "b", "c", "d", "e", "f", "g", "h", "i", "j", "k", "l", "m",
                 "n", "o", "p", "q", "r", "s", "t", "u", "v", "w", "x", "y", "z">>
UpperLetters == <<"A", "B", "C", "D", "E", "F", "G", "H", "I", "J", "K", "L", "M",
                 "N", "O", "P", "Q", "R", "S", "T", "U", "V", "W", "X", "Y", "Z">>
Digits == {"0", "1", "2", "3", "4", "5", "6", "7", "8", "9"}
LetterIndex(letters, c) == CHOOSE i \in 1..Len(letters) : letters[i] = c
LowerSet == {LowerLetters[i] : i \in 1..Len(LowerLetters)}
UpperSet == {UpperLetters[i] : i \in 1..Len(UpperLetters)}
LowerOf == [c \in UpperSet |-> LowerLetters[LetterIndex(UpperLetters, c)]]
UpperOf == [c \in LowerSet |-> UpperLetters[LetterIndex(LowerLetters, c)]]
IsUpper(c) == c \in UpperSet
IsLower(c) == c \in LowerSet

(* strings.ToLower / strings.ToUpper, on ASCII text                        *)
ToLower(s) == [i \in 1..Len(s) |-> IF IsUpper(s[i]) THEN LowerOf[s[i]] ELSE s[i]]
ToUpper(s) == [i \in 1..Len(s) |-> IF IsLower(s[i]) THEN UpperOf[s[i]] ELSE s[i]]

IsSpace(c) == c \in {" ", "\t", "\n", "\r"}

RECURSIVE TrimLeft(_)
TrimLeft(s) ==
    IF Len(s) > 0 /\ IsSpace(s[1]) THEN TrimLeft(Tail(s)) ELSE s
RECURSIVE TrimRight(_)
TrimRight(s) ==
    IF Len(s) > 0 /\ IsSpace(s[Len(s)]) THEN TrimRight(SubSeq(s, 1, Len(s) - 1)) ELSE s
(* strings.TrimSpace                                                       *)
TrimSpace(s) == TrimRight(TrimLeft(s))

(* strings.HasPrefix                                                       *)
HasPrefix(s, p) == Len(s) >= Len(p) /\ SubSeq(s, 1, Len(p)) = p

(* Start positions (0-based, as in Go) of the occurrences of sub in s.     *)
Occurrences(s, sub) ==
    {i \in 0..(Len(s) - Len(sub)) : SubSeq(s, i + 1, i + Len(sub)) = sub}
Min(S) == CHOOSE x \in S : \A y \in S : x <= y
Max(S) == CHOOSE x \in S : \A y \in S : x >= y
(* strings.Index and strings.LastIndex: -1 when sub does not occur.        *)
Index(s, sub) == IF Occurrences(s, sub) = {} THEN -1 ELSE Min(Occurrences(s, sub))
LastIndex(s, sub) == IF Occurrences(s, sub) = {} THEN -1 ELSE Max(Occurrences(s, sub))

(* The first element of strings.Fields(s), or the empty text.              *)
RECURSIVE TakeWord(_)
TakeWord(s) ==
    IF Len(s) = 0 \/ IsSpace(s[1]) THEN <<>> ELSE <<s[1]>> \o TakeWord(Tail(s))
FirstField(s) == TakeWord(TrimLeft(s))

----------------------------------------------------------------------------
(* Raw SQL gateway: ExploreHandler.ExecuteRawSQL                           *)

KwDrop == <<"d", "r", "o", "p">>
KwDelete == <<"d", "e", "l", "e", "t", "e">>
KwTruncate == <<"t", "r", "u", "n", "c", "a", "t", "e">>
KwAlter == <<"a", "l", "t", "e", "r">>
KwCreate == <<"c", "r", "e", "a", "t", "e">>
KwInsert == <<"i", "n", "s", "e", "r", "t">>
KwUpdate == <<"u", "p", "d", "a", "t", "e">>

(* Variant: the prefix test without lowercasing.                           *)
IsDangerous_CaseSensitive(query) ==
    LET queryTrimmed == TrimSpace(query) IN
    \/ HasPrefix(queryTrimmed, KwDrop)
    \/ HasPrefix(queryTrimmed, KwDelete)
    \/ HasPrefix(queryTrimmed, KwTruncate)
    \/ HasPrefix(queryTrimmed, KwAlter)
    \/ HasPrefix(queryTrimmed, KwCreate)
    \/ HasPrefix(queryTrimmed, KwInsert)
    \/ HasPrefix(queryTrimmed, KwUpdate)

(* "Basic security: prevent dangerous operations"                          *)
IsDangerous(query) ==
    LET queryLower == ToLower(TrimSpace(query)) IN
    \/ HasPrefix(queryLower, KwDrop)
    \/ HasPrefix(queryLower, KwDelete)
    \/ HasPrefix(queryLower, KwTruncate)
    \/ HasPrefix(queryLower, KwAlter)
    \/ HasPrefix(queryLower, KwCreate)
    \/ HasPrefix(queryLower, KwInsert)
    \/ HasPrefix(queryLower, KwUpdate)

(* Row decoder of ClickHouseClient.QueryRaw                                *)

(* What the engine declares and delivers: each type tag of the model with  *)
(* the Go type the driver produces for it natively.                        *)
EngineTypes ==
    {[type |-> TypeTag.String, native |-> "string"],
     [type |-> TypeTag.DateTime64Milli, native |-> "time"],
     [type |-> TypeTag.DateTime64Nano, native |-> "time"],
     [type |-> TypeTag.DateTime, native |-> "time"],
     [type |-> TypeTag.Date, native |-> "time"],
     [type |-> TypeTag.FixedString, native |-> "string"],
     [type |-> TypeTag.LowCardinality, native |-> "string"],
     [type |-> TypeTag.Int8, native |-> "int8"],
     [type |-> TypeTag.Int16, native |-> "int16"],
     [type |-> TypeTag.Int32, native |-> "int32"],
     [type |-> TypeTag.Int64, native |-> "int64"],
     [type |-> TypeTag.UInt8, native |-> "uint8"],
     [type |-> TypeTag.UInt16, native |-> "uint16"],
     [type |-> TypeTag.UInt32, native |-> "uint32"],
     [type |-> TypeTag.UInt64, native |-> "uint64"],
     [type |-> TypeTag.Float32, native |-> "float32"],
     [type |-> TypeTag.Float64, native |-> "float64"],
     [type |-> TypeTag.Bool, native |-> "bool"],
     [type |-> TypeTag.UUID, native |-> "uuid"],
     [type |-> TypeTag.Array, native |-> "array"],
     [type |-> TypeTag.Map, native |-> "map"],
     [type |-> TypeTag.DateTimeZone, native |-> "text"],
     [type |-> TypeTag.Date32, native |-> "text"],
     [type |-> TypeTag.Nullable, native |-> "text"],
     [type |-> TypeTag.Decimal, native |-> "text"]}

(* time.Time values: the zero time is year 1, January 1, 00:00:00 UTC.     *)
Time(y, mo, d, h, mi, sec) ==
    [year |-> y, month |-> mo, day |-> d, hour |-> h, minute |-> mi, second |-> sec]
ZeroTime == Time(1, 1, 1, 0, 0, 0)

NilMap == [isNil |-> TRUE, entries |-> {}]

(* Values a column of a native Go type can hold.                           *)
ValuesOf(native) ==
    CASE native = "time" -> {ZeroTime, Time(1970, 1, 1, 0, 0, 0), Time(2024, 3, 9, 7, 5, 30)}
      [] native = "string" -> {"", "a"}
      [] native = "int8" -> {-128, 127}
      [] native = "int16" -> {-32768, 32767}
      [] native = "int32" -> {-2147483647, 2147483647}
      [] native = "int64" -> {-2147483647, 2147483647}
      [] native = "uint8" -> {0, 255}
      [] native = "uint16" -> {0, 65535}
      [] native = "uint32" -> {0, 2147483647}
      [] native = "uint64" -> {0, 2147483647}
      [] native = "float32" -> {"0", "1.5"}
      [] native = "float64" -> {"0", "2.25"}
      [] native = "bool" -> {TRUE, FALSE}
      [] native = "map" -> {NilMap, [isNil |-> FALSE, entries |-> {<<"k", "v">>}]}
      [] native = "uuid" -> {"", "6f1e"}
      [] native = "array" -> {"", "['a','b']"}
      [] OTHER -> {"", "1.50"}

ScanTarget_UnsignedAsSigned(typeName) ==
    IF HasPrefix(typeName, TagPrefix.DateTime64) \/ typeName = TypeTag.DateTime THEN "time"
    ELSE IF typeName = TypeTag.Date THEN "time"
    ELSE IF \/ typeName = TypeTag.String
            \/ HasPrefix(typeName, TagPrefix.FixedString)
            \/ typeName = TypeTag.LowCardinality THEN "string"
    ELSE IF typeName = TypeTag.Int8 THEN "int8"
    ELSE IF typeName = TypeTag.Int16 THEN "int16"
    ELSE IF typeName = TypeTag.Int32 THEN "int32"
    ELSE IF typeName = TypeTag.Int64 THEN "int64"
    ELSE IF typeName = TypeTag.UInt8 THEN "int8"
    ELSE IF typeName = TypeTag.UInt16 THEN "int16"
    ELSE IF typeName = TypeTag.UInt32 THEN "int32"
    ELSE IF typeName = TypeTag.UInt64 THEN "int64"
    ELSE IF typeName = TypeTag.Float32 THEN "float32"
    ELSE IF typeName = TypeTag.Float64 THEN "float64"
    ELSE IF typeName = TypeTag.Bool THEN "bool"
    ELSE IF typeName = TypeTag.UUID THEN "string"
    ELSE IF HasPrefix(typeName, TagPrefix.Array) THEN "string"
    ELSE IF HasPrefix(typeName, TagPrefix.Map) THEN "map"
    ELSE "string"

(* The scan target chosen for a column: switch on DatabaseTypeName().      *)
ScanTarget(typeName) ==
    IF HasPrefix(typeName, TagPrefix.DateTime64) \/ typeName = TypeTag.DateTime THEN "time"
    ELSE IF typeName = TypeTag.Date THEN "time"
    ELSE IF \/ typeName = TypeTag.String
            \/ HasPrefix(typeName, TagPrefix.FixedString)
            \/ typeName = TypeTag.LowCardinality THEN "string"
    ELSE IF typeName = TypeTag.Int8 THEN "int8"
    ELSE IF typeName = TypeTag.Int16 THEN "int16"
    ELSE IF typeName = TypeTag.Int32 THEN "int32"
    ELSE IF typeName = TypeTag.Int64 THEN "int64"
    ELSE IF typeName = TypeTag.UInt8 THEN "uint8"
    ELSE IF typeName = TypeTag.UInt16 THEN "uint16"
    ELSE IF typeName = TypeTag.UInt32 THEN "uint32"
    ELSE IF typeName = TypeTag.UInt64 THEN "uint64"
    ELSE IF typeName = TypeTag.Float32 THEN "float32"
    ELSE IF typeName = TypeTag.Float64 THEN "float64"
    ELSE IF typeName = TypeTag.Bool THEN "bool"
    ELSE IF typeName = TypeTag.UUID THEN "string"
    ELSE IF HasPrefix(typeName, TagPrefix.Array) THEN "string"
    ELSE IF HasPrefix(typeName, TagPrefix.Map) THEN "map"
    ELSE "string"

(* rows.Scan into the typed target: the target's Go type, the cell's value *)
Scan(target, cell) == GoValue(target, cell.val)

(* time.Time.IsZero and Format(time.RFC3339), for UTC instants             *)
IsZero(t) == t = ZeroTime
RECURSIVE PadLeft(_, _)
PadLeft(str, width) == IF Len(str) >= width THEN str ELSE PadLeft("0" \o str, width)
FormatRFC3339(t) ==
    PadLeft(ToString(t.year), 4) \o "-" \o PadLeft(ToString(t.month), 2)
        \o "-" \o PadLeft(ToString(t.day), 2) \o "T"
        \o PadLeft(ToString(t.hour), 2) \o ":" \o PadLeft(ToString(t.minute), 2)
        \o ":" \o PadLeft(ToString(t.second), 2) \o "Z"

Decoded(kind, val) == [kind |-> kind, val |-> val]
Null == Decoded("null", "null")

Extract_EmptyStringAsNull(v) ==
    CASE v.go = "time" ->
            IF ~IsZero(v.val) THEN Decoded("timestamp", FormatRFC3339(v.val)) ELSE Null
      [] v.go = "string" ->
            IF v.val # "" THEN Decoded("string", v.val) ELSE Null
      [] v.go \in {"int8", "int16", "int32", "int64"} -> Decoded("int64", v.val)
      [] v.go \in {"uint8", "uint16", "uint32", "uint64"} -> Decoded("uint64", v.val)
      [] v.go \in {"float32", "float64"} -> Decoded("float64", v.val)
      [] v.go = "bool" -> Decoded("bool", v.val)
      [] v.go = "map" ->
            IF ~v.val.isNil THEN Decoded("map", v.val.entries) ELSE Decoded("map", {})
      [] OTHER -> Null

(* "Extract the actual value from the pointer": switch on the target type  *)
Extract(v) ==
    CASE v.go = "time" ->
            IF ~IsZero(v.val) THEN Decoded("timestamp", FormatRFC3339(v.val)) ELSE Null
      [] v.go = "string" ->
            IF v.val # "" THEN Decoded("string", v.val) ELSE Decoded("string", v.val)
      [] v.go \in {"int8", "int16", "int32", "int64"} -> Decoded("int64", v.val)
      [] v.go \in {"uint8", "uint16", "uint32", "uint64"} -> Decoded("uint64", v.val)
      [] v.go \in {"float32", "float64"} -> Decoded("float64", v.val)
      [] v.go = "bool" -> Decoded("bool", v.val)
      [] v.go = "map" ->
            IF ~v.val.isNil THEN Decoded("map", v.val.entries) ELSE Decoded("map", {})
      [] OTHER -> Null

(* One row of the typed path: a value per column.                          *)
DecodeRow(columns, row) ==
    [id |-> row.id,
     values |-> RowMap(columns,
                       [i \in 1..Len(columns) |->
                           Extract(Scan(ScanTarget(columns[i].type), row.cells[i]))])]

(* The typed scan loop: a row that fails to scan is skipped.               *)
DecodeRows(columns, rows) ==
    LET scanned == ScanRows(rows)
    IN [i \in 1..Len(scanned) |-> DecodeRow(columns, scanned[i])]

QueryRaw_TrimmedQuery(query, e) ==
    LET call == [fn |-> "conn.Query", query |-> TrimSpace(query), args |-> <<>>] IN
    IF e.queryErr
    THEN [called |-> TRUE, err |-> "failed to execute raw query",
          calls |-> <<call>>, resp |-> Nil]
    ELSE IF e.rowsErr
    THEN [called |-> TRUE, err |-> "error iterating rows",
          calls |-> <<call>>, resp |-> Nil]
    ELSE [called |-> TRUE, err |-> Nil, calls |-> <<call>>,
          resp |-> [columns |-> ColumnNames(e.columns),
                    data |-> DecodeRows(e.columns, e.rows)]]

QueryRaw_RetryOnError(query, e) ==
    LET call == [fn |-> "conn.Query", query |-> query, args |-> <<>>] IN
    IF e.queryErr
    THEN [called |-> TRUE, err |-> "failed to execute raw query",
          calls |-> <<call, call>>, resp |-> Nil]
    ELSE IF e.rowsErr
    THEN [called |-> TRUE, err |-> "error iterating rows",
          calls |-> <<call>>, resp |-> Nil]
    ELSE [called |-> TRUE, err |-> Nil, calls |-> <<call>>,
          resp |-> [columns |-> ColumnNames(e.columns),
                    data |-> DecodeRows(e.columns, e.rows)]]

QueryRaw_PartialOnStreamError(query, e) ==
    LET call == [fn |-> "conn.Query", query |-> query, args |-> <<>>] IN
    IF e.queryErr
    THEN [called |-> TRUE, err |-> "failed to execute raw query",
          calls |-> <<call>>, resp |-> Nil]
    ELSE [called |-> TRUE, err |-> Nil, calls |-> <<call>>,
          resp |-> [columns |-> ColumnNames(e.columns),
                    data |-> DecodeRows(e.columns, e.rows)]]

(* ClickHouseClient.QueryRaw: the error or the columns and rows, and the   *)
(* engine call made.                                                       *)
QueryRaw(query, e) ==
    LET call == [fn |-> "conn.Query", query |-> query, args |-> <<>>] IN
    IF e.queryErr
    THEN [called |-> TRUE, err |-> "failed to execute raw query",
          calls |-> <<call>>, resp |-> Nil]
    ELSE IF e.rowsErr
    THEN [called |-> TRUE, err |-> "error iterating rows",
          calls |-> <<call>>, resp |-> Nil]
    ELSE [called |-> TRUE, err |-> Nil, calls |-> <<call>>,
          resp |-> [columns |-> ColumnNames(e.columns),
                    data |-> DecodeRows(e.columns, e.rows)]]

(* Requests of the gateway: optional leading white space, a first word in  *)
(* lower, upper or capitalised spelling, a tail.                           *)
Capitalise(w) == IF Len(w) = 0 THEN w ELSE ToUpper(<<w[1]>>) \o Tail(w)
RawLeading == {<<>>, <<" ">>, <<"\n", "\t">>}
RawFirstWords ==
    {KwDrop, KwDelete, KwTruncate, KwAlter, KwCreate, KwInsert, KwUpdate,
     <<"s", "e", "l", "e", "c", "t">>, <<"s", "h", "o", "w">>, <<"w", "i", "t", "h">>, <<"d", "r", "o">>,
     <<"u", "p", "d", "a", "t", "e", "s">>}
RawTails == {<<>>, <<" ", "x">>, <<" ", "T", "A", "B", "L", "E", " ", "t", " ", "\n">>}
Spellings(w) == {w, ToUpper(w), Capitalise(w)}
RawQueries ==
    {<<>>, <<" ">>} \cup
    {l \o s \o t : l \in RawLeading,
                   s \in UNION {Spellings(w) : w \in RawFirstWords},
                   t \in RawTails}
RawSQLRequests == [database : Databases, query : RawQueries]
ZeroRawSQLRequest == [database |-> "", query |-> <<>>]

----------------------------------------------------------------------------
(* Autocomplete: the fixed keyword list                                    *)

Keywords == <<
    <<"S", "E", "L", "E", "C", "T">>,
    <<"F", "R", "O", "M">>,
    <<"W", "H", "E", "R", "E">>,
    <<"G", "R", "O", "U", "P", " ", "B", "Y">>,
    <<"O", "R", "D", "E", "R", " ", "B", "Y">>,
    <<"H", "A", "V", "I", "N", "G">>,
    <<"L", "I", "M", "I", "T">>,
    <<"O", "F", "F", "S", "E", "T">>,
    <<"J", "O", "I", "N">>,
    <<"L", "E", "F", "T", " ", "J", "O", "I", "N">>,
    <<"R", "I", "G", "H", "T", " ", "J", "O", "I", "N">>,
    <<"I", "N", "N", "E", "R", " ", "J", "O", "I", "N">>,
    <<"O", "U", "T", "E", "R", " ", "J", "O", "I", "N">>,
    <<"F", "U", "L", "L", " ", "J", "O", "I", "N">>,
    <<"O", "N">>,
    <<"A", "N", "D">>,
    <<"O", "R">>,
    <<"N", "O", "T">>,
    <<"I", "N">>,
    <<"L", "I", "K", "E">>,
    <<"B", "E", "T", "W", "E", "E", "N">>,
    <<"I", "S">>,
    <<"N", "U", "L", "L">>,
    <<"T", "R", "U", "E">>,
    <<"F", "A", "L", "S", "E">>,
    <<"C", "O", "U", "N", "T">>,
    <<"S", "U", "M">>,
    <<"A", "V", "G">>,
    <<"M", "I", "N">>,
    <<"M", "A", "X">>,
    <<"D", "I", "S", "T", "I", "N", "C", "T">>,
    <<"A", "S">>,
    <<"A", "S", "C">>,
    <<"D", "E", "S", "C">>>>

(* isAlphaNumeric                                                          *)
isAlphaNumeric(c) == IsLower(c) \/ IsUpper(c) \/ c \in Digits

WordChar_NoUnderscore(c) == isAlphaNumeric(c)

WordChar(c) == isAlphaNumeric(c) \/ c = "_"

(* getWordAtPosition: scan left and right from the cursor.                 *)
RECURSIVE WordStart(_, _)
WordStart(query, start) ==
    IF start > 0 /\ WordChar(query[start]) THEN WordStart(query, start - 1) ELSE start
RECURSIVE WordEnd(_, _)
WordEnd(query, end) ==
    IF end < Len(query) /\ WordChar(query[end + 1]) THEN WordEnd(query, end + 1) ELSE end
getWordAtPosition(query, position) ==
    IF position < 0 \/ position > Len(query) THEN <<>>
    ELSE SubSeq(query, WordStart(query, position) + 1, WordEnd(query, position))

KwFrom == <<"f", "r", "o", "m">>
KwJoin == <<"j", "o", "i", "n">>

(* query[:position] panics when position is outside 0..len(query).         *)
SliceInRange(query, position) == position >= 0 /\ position <= Len(query)

(* shouldSuggestTables, for a position the slice accepts.                  *)
shouldSuggestTables(query, position) ==
    LET fromIndex == LastIndex(SubSeq(query, 1, position), KwFrom)
        joinIndex == LastIndex(SubSeq(query, 1, position), KwJoin)
    IN fromIndex >= 0 \/ joinIndex >= 0

(* getTableFromQuery: the word after the first "from", or the empty text.  *)
getTableFromQuery(query) ==
    LET fromIndex == Index(query, KwFrom) IN
    IF fromIndex = -1 THEN <<>>
    ELSE FirstField(TrimSpace(SubSeq(query, fromIndex + 5, Len(query))))

PrefixMatches_CaseSensitive(name, wordAtCursor) == HasPrefix(name, wordAtCursor)

PrefixMatches(name, wordAtCursor) == HasPrefix(ToLower(name), ToLower(wordAtCursor))

Suggestion(text, type) == [text |-> text, type |-> type]

KeywordSuggestions(wordAtCursor) ==
    LET matching == SelectSeq(Keywords, LAMBDA k : PrefixMatches(k, wordAtCursor))
    IN [i \in 1..Len(matching) |-> Suggestion(matching[i], "keyword")]

TableSuggestions(tables, wordAtCursor) ==
    LET matching == SelectSeq(tables, LAMBDA t : PrefixMatches(t, wordAtCursor))
    IN [i \in 1..Len(matching) |-> Suggestion(matching[i], "table")]

ColumnSuggestions(fields, wordAtCursor) ==
    LET matching == SelectSeq(fields, LAMBDA f : PrefixMatches(f.name, wordAtCursor))
    IN [i \in 1..Len(matching) |-> Suggestion(matching[i].name, "column")]

Truncate_KeepLast(suggestions) ==
    IF Len(suggestions) > MaxSuggestions
    THEN SubSeq(suggestions, Len(suggestions) - MaxSuggestions + 1, Len(suggestions))
    ELSE suggestions

(* "Limit suggestions to avoid overwhelming the UI"                        *)
Truncate(suggestions) ==
    IF Len(suggestions) > MaxSuggestions
    THEN SubSeq(suggestions, 1, MaxSuggestions)
    ELSE suggestions

(* getAutocompleteSuggestions: [panic, err, suggestions, calls].  e holds  *)
(* the introspector's answers: tablesErr, tables, fieldsErr, fields.       *)
getAutocompleteSuggestions_ErrorSurfaced(r, e) ==
    LET query == ToLower(r.query)
        wordAtCursor == getWordAtPosition(r.query, r.position)
        keywords == KeywordSuggestions(wordAtCursor)
    IN
    IF ~SliceInRange(query, r.position)
    THEN [panic |-> TRUE, err |-> Nil, suggestions |-> <<>>, calls |-> <<>>]
    ELSE
    LET wantTables == shouldSuggestTables(query, r.position)
        tablesCall == [fn |-> "conn.Query", query |-> "system.tables",
                       args |-> <<r.database>>]
        tables == IF wantTables /\ ~e.tablesErr
                  THEN TableSuggestions(e.tables, wordAtCursor) ELSE <<>>
        tableName == getTableFromQuery(query)
        fieldsCall == [fn |-> "conn.Query", query |-> "system.columns",
                       args |-> <<r.database, tableName>>]
        columns == IF tableName # <<>> /\ ~e.fieldsErr
                   THEN ColumnSuggestions(e.fields, wordAtCursor) ELSE <<>>
    IN [panic |-> FALSE,
        err |-> (IF \/ wantTables /\ e.tablesErr
                    \/ tableName # <<>> /\ e.fieldsErr
                 THEN "schema call failed" ELSE Nil),
        suggestions |-> Truncate(keywords \o tables \o columns),
        calls |-> (IF wantTables THEN <<tablesCall>> ELSE <<>>)
                    \o (IF tableName # <<>> THEN <<fieldsCall>> ELSE <<>>)]

getAutocompleteSuggestions(r, e) ==
    LET query == ToLower(r.query)
        wordAtCursor == getWordAtPosition(r.query, r.position)
        keywords == KeywordSuggestions(wordAtCursor)
    IN
    IF ~SliceInRange(query, r.position)
    THEN [panic |-> TRUE, err |-> Nil, suggestions |-> <<>>, calls |-> <<>>]
    ELSE
    LET wantTables == shouldSuggestTables(query, r.position)
        tablesCall == [fn |-> "conn.Query", query |-> "system.tables",
                       args |-> <<r.database>>]
        tables == IF wantTables /\ ~e.tablesErr
                  THEN TableSuggestions(e.tables, wordAtCursor) ELSE <<>>
        tableName == getTableFromQuery(query)
        fieldsCall == [fn |-> "conn.Query", query |-> "system.columns",
                       args |-> <<r.database, tableName>>]
        columns == IF tableName # <<>> /\ ~e.fieldsErr
                   THEN ColumnSuggestions(e.fields, wordAtCursor) ELSE <<>>
    IN [panic |-> FALSE,
        err |-> Nil,
        suggestions |-> Truncate(keywords \o tables \o columns),
        calls |-> (IF wantTables THEN <<tablesCall>> ELSE <<>>)
                    \o (IF tableName # <<>> THEN <<fieldsCall>> ELSE <<>>)]

(* Requests of autocomplete and answers of the schema introspector        *)
AutocompleteQueries ==
    {<<>>,
     <<"S", "E", "L", "E", "C", "T", " ", "*", " ", "F", "R", "O", "M", " ">>,
     <<"s", "e", "l">>,
     <<"S", "E", "L", "E", "C", "T", " ", "s", "e", " ", "F", "R", "O", "M", " ", "o", "t", "e", "l", "_", "l", "o", "g", "s">>,
     <<"s", "e", "l", "e", "c", "t", " ", "*", " ", "f", "r", "o", "m", " ", "o", "t", "e", "l", "_", "l", "o", "g", "s", " ", "j", "o", "i", "n", " ", "o">>,
     <<"S", "E", "L", "E", "C", "T", " ", "*", " ", "F", "R", "O", "M", " ", "O", "t", "e", "l", "_", "L", "o", "g", "s", " ", "W", "H", "E", "R", "E", " ", "s", "e">>}
Positions(query) == (0 - MaxOvershoot)..(Len(query) + MaxOvershoot)
AutocompleteRequests ==
    UNION {[database : Databases, query : {q}, position : Positions(q)] :
              q \in AutocompleteQueries}
ZeroAutocompleteRequest == [database |-> "", query |-> <<>>, position |-> 0]

TableNames == <<<<"o", "t", "e", "l", "_", "l", "o", "g", "s">>, <<"o", "t", "e", "l", "_", "t", "r", "a", "c", "e", "s">>, <<"s", "e", "s", "s", "i", "o", "n", "s">>, <<"o", "r", "d", "e", "r", "s">>>>
TableField(name, type) == [name |-> name, type |-> type]
TableFields ==
    <<TableField(<<"s", "e", "v", "e", "r", "i", "t", "y">>, "String"), TableField(<<"b", "o", "d", "y">>, "String"),
      TableField(<<"T", "i", "m", "e", "s", "t", "a", "m", "p">>, "DateTime64(9)"), TableField(<<"f", "l", "a", "g", "s">>, "UInt8")>>
IntrospectorAnswers ==
    {[tablesErr |-> te, tables |-> t, fieldsErr |-> fe, fields |-> f] :
        te \in BOOLEAN, fe \in BOOLEAN,
        t \in Prefixes(TableNames, MaxTables) \cup {<<TableNames[3], TableNames[1]>>},
        f \in Prefixes(TableFields, MaxColumns)}

----------------------------------------------------------------------------
(* Result sets for the decoders: columns of every type tag                 *)

(* Every row of at most MaxRows rows over the given cell tuples; each row  *)
(* scans or fails to scan.                                                 *)
RowStreams(cellTuples) ==
    UNION {{[i \in 1..n |-> Row(i, f[i][2], f[i][1])] :
               f \in [1..n -> cellTuples \X BOOLEAN]} : n \in 0..MaxRows}

(* Result sets of one column, for every engine type; the stream may fail   *)
(* after the rows were read.                                               *)
SingleColumnResults ==
    UNION {{[queryErr |-> FALSE, rowsErr |-> re,
             columns |-> <<Column("c", t.type)>>, rows |-> rws] :
               re \in BOOLEAN, rws \in RowStreams({<<GoValue(t.native, v)>> :
                                         v \in ValuesOf(t.native)})} :
           t \in EngineTypes}

(* A result set of several columns of different kinds.                     *)
MixedColumns == <<Column("ts", TypeTag.DateTime), Column("body", TypeTag.String),
                  Column("attrs", TypeTag.Map)>>
MixedResults ==
    {[queryErr |-> FALSE, rowsErr |-> re, columns |-> MixedColumns, rows |-> rws] :
        re \in BOOLEAN, rws \in RowStreams(
            {<<GoValue("time", ZeroTime), GoValue("string", ""), GoValue("map", NilMap)>>,
             <<GoValue("time", Time(2024, 3, 9, 7, 5, 30)), GoValue("string", "a"), GoValue("map", [isNil |-> FALSE, entries |-> {<<"k", "v">>}])>>})}

DecodeOutcomes == SingleColumnResults \cup MixedResults \cup {EngineQueryError}

DecodeExploreRequests ==
    {[database |-> "default", table |-> "otel_logs", fields |-> <<>>,
      groupBy |-> <<>>, aggregate |-> "", orderBy |-> "", orderDir |-> "",
      filterBy |-> "", filterOp |-> "", filterVal |-> "", limit |-> 5]}
DecodeRawSQLRequests == [database : {"default"}, query :
        {<<"S", "E", "L", "E", "C", "T", " ", "*", " ", "F", "R", "O", "M", " ", "t">>}]

----------------------------------------------------------------------------
(* Schema listing: GetDatabases, GetTables, GetTableFields of the client   *)

DatabaseNames == <<<<"d", "e", "f", "a", "u", "l", "t">>, <<"o", "t", "e", "l">>, <<"l", "o", "g", "s">>>>

(* The answers to a listing: one row per item, each scans or fails to      *)
(* scan; the query or the stream may fail.                                 *)
ListingOutcomes(itemLists) ==
    {[queryErr |-> qe, rowsErr |-> re, rows |-> rws] :
        qe \in BOOLEAN, re \in BOOLEAN,
        rws \in UNION {{[i \in 1..Len(items) |-> Row(i, ok[i], items[i])] :
                            ok \in [1..Len(items) -> BOOLEAN]} : items \in itemLists}}

ListedItems(rows) ==
    LET scanned == ScanRows(rows) IN [i \in 1..Len(scanned) |-> scanned[i].cells]

Listing_SecondAttempt(what, query, args, e) ==
    LET call == [fn |-> "conn.Query", query |-> query, args |-> args] IN
    IF e.queryErr
    THEN [called |-> TRUE, err |-> "failed to query " \o what,
          calls |-> <<call, call>>, resp |-> Nil]
    ELSE IF e.rowsErr
    THEN [called |-> TRUE, err |-> "error iterating " \o what,
          calls |-> <<call>>, resp |-> Nil]
    ELSE [called |-> TRUE, err |-> Nil, calls |-> <<call>>,
          resp |-> ListedItems(e.rows)]

(* One listing query of the client: [called, err, calls, resp].            *)
Listing(what, query, args, e) ==
    LET call == [fn |-> "conn.Query", query |-> query, args |-> args] IN
    IF e.queryErr
    THEN [called |-> TRUE, err |-> "failed to query " \o what,
          calls |-> <<call>>, resp |-> Nil]
    ELSE IF e.rowsErr
    THEN [called |-> TRUE, err |-> "error iterating " \o what,
          calls |-> <<call>>, resp |-> Nil]
    ELSE [called |-> TRUE, err |-> Nil, calls |-> <<call>>,
          resp |-> ListedItems(e.rows)]

ClientGetDatabases(e) == Listing("databases", "system.databases", <<>>, e)

ClientGetTables(database, e) ==
    IF database = ""
    THEN ClientError("database name cannot be empty")
    ELSE Listing("tables", "system.tables", <<database>>, e)

ClientGetTableFields(database, table, e) ==
    IF database = "" \/ table = ""
    THEN ClientError("database and table names cannot be empty")
    ELSE Listing("table fields", "system.columns", <<database, table>>, e)

ListingRequest(database, table) == [database |-> database, table |-> table]

----------------------------------------------------------------------------
(* NewRouter: the client it could connect, the routes it mounts            *)

ConnectOutcomes == {"ok", "open fails", "ping fails"}

(* NewClickHouseClient: [client, err].                                     *)
NewClickHouseClient(outcome) ==
    IF outcome = "open fails"
    THEN [client |-> Nil, err |-> "failed to connect to ClickHouse"]
    ELSE IF outcome = "ping fails"
    THEN [client |-> Nil, err |-> "failed to ping ClickHouse"]
    ELSE [client |-> "conn", err |-> Nil]

RoutesAlways ==
    {"/health", "/api/v1/metrics", "/api/v1/dashboards", "/api/v1/alerts",
     "/api/v1/datasources"}
RoutesOfEngine == {"/api/v1/logs", "/api/v1/explore"}

(* Variant: the engine-backed routes are mounted whatever the client is.   *)
MountedRoutes_Unconditional(clickhouseClient) == RoutesAlways \cup RoutesOfEngine

MountedRoutes(clickhouseClient) ==
    IF clickhouseClient # Nil THEN RoutesAlways \cup RoutesOfEngine
    ELSE RoutesAlways

(* The router built after the connection attempt ended as outcome.         *)
Router(outcome) ==
    LET c == NewClickHouseClient(outcome)
        clickhouseClient == IF c.err # Nil THEN Nil ELSE c.client
    IN [err |-> c.err, clickhouseClient |-> clickhouseClient,
        mounted |-> MountedRoutes(clickhouseClient)]

NoRouter == [err |-> Nil, clickhouseClient |-> Nil, mounted |-> {}]

Mounted(path) == path \in router.mounted

(* ClickHouseClient.GetTop100Logs: [called, err, calls, resp].             *)
ClientGetTop100Logs(e) ==
    LET call == [fn |-> "conn.Query", query |-> "otel_logs", args |-> <<Top100Limit>>] IN
    IF e.queryErr
    THEN [called |-> TRUE, err |-> "failed to query logs",
          calls |-> <<call>>, resp |-> Nil]
    ELSE IF e.rowsErr
    THEN [called |-> TRUE, err |-> "error iterating rows",
          calls |-> <<call>>, resp |-> Nil]
    ELSE [called |-> TRUE, err |-> Nil, calls |-> <<call>>,
          resp |-> ListedItems(e.rows)]

----------------------------------------------------------------------------
(* Initial state: the server waits for a request.                          *)

Init ==
    /\ pc = "idle"
    /\ op = "none"
    /\ bodyOk = TRUE
    /\ req = NoRequest
    /\ env = NoEnv
    /\ engine = <<>>
    /\ client = NoCall
    /\ status = 0
    /\ result = Nil
    /\ router = Router("ok")

(* POST /explore/query with a body that does not decode.                   *)
ExecuteQueryBadBody ==
    /\ pc = "idle"
    /\ Mounted("/api/v1/explore")
    /\ UNCHANGED router
    /\ pc' = "done"
    /\ op' = "ExecuteQuery"
    /\ bodyOk' = FALSE
    /\ req' = ZeroExploreRequest
    /\ env' = NoEnv
    /\ engine' = <<>>
    /\ client' = NoCall
    /\ status' = StatusBadRequest
    /\ result' = "Invalid request body"

(* POST /explore/query: ExploreHandler.ExecuteQuery, for a request of      *)
(* requests and an engine answer of outcomes.                              *)
ExecuteQueryOn(requests, outcomes) ==
    /\ pc = "idle"
    /\ Mounted("/api/v1/explore")
    /\ UNCHANGED router
    /\ \E r \in requests, e \in outcomes :
        /\ pc' = "done"
        /\ op' = "ExecuteQuery"
        /\ bodyOk' = TRUE
        /\ req' = (IF r.database = "" \/ r.table = "" THEN r
                   ELSE CallerRequest(r, CalleeRequest(r)))
        /\ IF r.database = "" \/ r.table = ""
           THEN /\ env' = NoEnv
                /\ engine' = <<>>
                /\ client' = NoCall
                /\ status' = StatusBadRequest
                /\ result' = "Database and table are required"
           ELSE LET c == ClientExecuteExploreQuery(r, e) IN
                /\ env' = (IF c.calls = <<>> THEN NoEnv ELSE e)
                /\ engine' = c.calls
                /\ client' = c
                /\ IF c.err # Nil
                   THEN /\ status' = StatusInternalServerError
                        /\ result' = "Could not execute query"
                   ELSE /\ status' = StatusOK
                        /\ result' = c.resp

ExecuteQuery == ExecuteQueryOn(ExploreRequests, ExploreOutcomes)

(* ExploreService.ExecuteExploreQuery: validate, then the client.          *)
ServiceExecuteExploreQueryOn(requests, outcomes) ==
    /\ pc = "idle"
    /\ router.clickhouseClient # Nil
    /\ UNCHANGED router
    /\ \E r \in requests, e \in outcomes :
        /\ pc' = "done"
        /\ op' = "ServiceExecuteExploreQuery"
        /\ bodyOk' = TRUE
        /\ req' = (IF ValidateExploreRequest(r) # Nil THEN r
                   ELSE CallerRequest(r, CalleeRequest(r)))
        /\ status' = 0
        /\ IF ValidateExploreRequest(r) # Nil
           THEN /\ env' = NoEnv
                /\ engine' = <<>>
                /\ client' = NoCall
                /\ result' = [err |-> "validation error",
                              cause |-> ValidateExploreRequest(r)]
           ELSE LET c == ClientExecuteExploreQuery(r, e) IN
                /\ env' = (IF c.calls = <<>> THEN NoEnv ELSE e)
                /\ engine' = c.calls
                /\ client' = c
                /\ result' = IF c.err # Nil
                             THEN [err |-> "query execution error", cause |-> c.err]
                             ELSE [err |-> Nil, resp |-> c.resp]

ServiceExecuteExploreQuery ==
    ServiceExecuteExploreQueryOn(ExploreRequests, ExploreOutcomes)

(* The response is written; the server takes the next request.             *)
ServeNext ==
    /\ pc = "done"
    /\ UNCHANGED router
    /\ pc' = "idle"
    /\ op' = "none"
    /\ bodyOk' = TRUE
    /\ req' = NoRequest
    /\ env' = NoEnv
    /\ engine' = <<>>
    /\ client' = NoCall
    /\ status' = 0
    /\ result' = Nil

NextExplore ==
    \/ ExecuteQueryBadBody
    \/ ExecuteQuery
    \/ ServiceExecuteExploreQuery
    \/ ServeNext

SpecExplore == Init /\ [][NextExplore]_vars

(* POST /explore/execute-sql with a body that does not decode.             *)
ExecuteRawSQLBadBody ==
    /\ pc = "idle"
    /\ Mounted("/api/v1/explore")
    /\ UNCHANGED router
    /\ pc' = "done"
    /\ op' = "ExecuteRawSQL"
    /\ bodyOk' = FALSE
    /\ req' = ZeroRawSQLRequest
    /\ env' = NoEnv
    /\ engine' = <<>>
    /\ client' = NoCall
    /\ status' = StatusBadRequest
    /\ result' = "Invalid request body"

(* POST /explore/execute-sql: ExploreHandler.ExecuteRawSQL, for a request  *)
(* of requests and an engine answer of outcomes.                           *)
ExecuteRawSQLOn(requests, outcomes) ==
    /\ pc = "idle"
    /\ Mounted("/api/v1/explore")
    /\ UNCHANGED router
    /\ \E r \in requests, e \in outcomes :
        /\ pc' = "done"
        /\ op' = "ExecuteRawSQL"
        /\ bodyOk' = TRUE
        /\ req' = r
        /\ IF r.database = ""
           THEN /\ env' = NoEnv
                /\ engine' = <<>>
                /\ client' = NoCall
                /\ status' = StatusBadRequest
                /\ result' = "Database is required"
           ELSE IF r.query = <<>>
           THEN /\ env' = NoEnv
                /\ engine' = <<>>
                /\ client' = NoCall
                /\ status' = StatusBadRequest
                /\ result' = "Query is required"
           ELSE IF IsDangerous(r.query)
           THEN /\ env' = NoEnv
                /\ engine' = <<>>
                /\ client' = NoCall
                /\ status' = StatusBadRequest
                /\ result' = "Only SELECT queries are allowed"
           ELSE LET c == QueryRaw(r.query, e) IN
                /\ env' = e
                /\ engine' = c.calls
                /\ client' = c
                /\ IF c.err # Nil
                   THEN /\ status' = StatusInternalServerError
                        /\ result' = "Failed to execute query"
                   ELSE /\ status' = StatusOK
                        /\ result' = [columns |-> c.resp.columns,
                                      rows |-> c.resp.data,
                                      total |-> Len(c.resp.data),
                                      query |-> r.query]

ExecuteRawSQL == ExecuteRawSQLOn(RawSQLRequests, ExploreOutcomes)

NextRawSQL ==
    \/ ExecuteRawSQLBadBody
    \/ ExecuteRawSQL
    \/ ServeNext

SpecRawSQL == Init /\ [][NextRawSQL]_vars

(* POST /explore/autocomplete with a body that does not decode.            *)
GetAutocompleteBadBody ==
    /\ pc = "idle"
    /\ Mounted("/api/v1/explore")
    /\ UNCHANGED router
    /\ pc' = "done"
    /\ op' = "GetAutocomplete"
    /\ bodyOk' = FALSE
    /\ req' = ZeroAutocompleteRequest
    /\ env' = NoEnv
    /\ engine' = <<>>
    /\ client' = NoCall
    /\ status' = StatusBadRequest
    /\ result' = "Invalid request body"

(* POST /explore/autocomplete: ExploreHandler.GetAutocomplete.  A panic    *)
(* of the handler is caught by the router's Recoverer middleware, which    *)
(* answers 500.                                                            *)
GetAutocomplete ==
    /\ pc = "idle"
    /\ Mounted("/api/v1/explore")
    /\ UNCHANGED router
    /\ \E r \in AutocompleteRequests, e \in IntrospectorAnswers :
        /\ pc' = "done"
        /\ op' = "GetAutocomplete"
        /\ bodyOk' = TRUE
        /\ req' = r
        /\ client' = NoCall
        /\ IF r.database = ""
           THEN /\ env' = NoEnv
                /\ engine' = <<>>
                /\ status' = StatusBadRequest
                /\ result' = "Database is required"
           ELSE LET a == getAutocompleteSuggestions(r, e) IN
                /\ env' = e
                /\ engine' = a.calls
                /\ IF a.panic
                   THEN /\ status' = StatusInternalServerError
                        /\ result' = "panic"
                   ELSE IF a.err # Nil
                   THEN /\ status' = StatusInternalServerError
                        /\ result' = "Could not get autocomplete suggestions"
                   ELSE /\ status' = StatusOK
                        /\ result' = [suggestions |-> a.suggestions]

NextAutocomplete ==
    \/ GetAutocompleteBadBody
    \/ GetAutocomplete
    \/ ServeNext

SpecAutocomplete == Init /\ [][NextAutocomplete]_vars

(* GET /explore/databases: ExploreHandler.GetDatabases.                    *)
GetDatabases ==
    /\ pc = "idle"
    /\ Mounted("/api/v1/explore")
    /\ UNCHANGED router
    /\ \E e \in ListingOutcomes(Prefixes(DatabaseNames, MaxTables)) :
        LET c == ClientGetDatabases(e) IN
        /\ pc' = "done"
        /\ op' = "GetDatabases"
        /\ bodyOk' = TRUE
        /\ req' = ListingRequest("", "")
        /\ env' = e
        /\ engine' = c.calls
        /\ client' = c
        /\ IF c.err # Nil
           THEN /\ status' = StatusInternalServerError
                /\ result' = "Could not fetch databases"
           ELSE /\ status' = StatusOK
                /\ result' = [databases |-> c.resp]

(* GET /explore/databases/{database}/tables: ExploreHandler.GetTables.     *)
GetTables ==
    /\ pc = "idle"
    /\ Mounted("/api/v1/explore")
    /\ UNCHANGED router
    /\ \E database \in Databases,
          e \in ListingOutcomes(Prefixes(TableNames, MaxTables)) :
        /\ pc' = "done"
        /\ op' = "GetTables"
        /\ bodyOk' = TRUE
        /\ req' = ListingRequest(database, "")
        /\ IF database = ""
           THEN /\ env' = NoEnv
                /\ engine' = <<>>
                /\ client' = NoCall
                /\ status' = StatusBadRequest
                /\ result' = "Database parameter is required"
           ELSE LET c == ClientGetTables(database, e) IN
                /\ env' = e
                /\ engine' = c.calls
                /\ client' = c
                /\ IF c.err # Nil
                   THEN /\ status' = StatusInternalServerError
                        /\ result' = "Could not fetch tables"
                   ELSE /\ status' = StatusOK
                        /\ result' = [tables |-> c.resp]

(* GET /explore/databases/{database}/tables/{table}/fields:                *)
(* ExploreHandler.GetTableFields.                                          *)
GetTableFields ==
    /\ pc = "idle"
    /\ Mounted("/api/v1/explore")
    /\ UNCHANGED router
    /\ \E database \in Databases, table \in Tables,
          e \in ListingOutcomes(Prefixes(TableFields, MaxColumns)) :
        /\ pc' = "done"
        /\ op' = "GetTableFields"
        /\ bodyOk' = TRUE
        /\ req' = ListingRequest(database, table)
        /\ IF database = "" \/ table = ""
           THEN /\ env' = NoEnv
                /\ engine' = <<>>
                /\ client' = NoCall
                /\ status' = StatusBadRequest
                /\ result' = "Database and table parameters are required"
           ELSE LET c == ClientGetTableFields(database, table, e) IN
                /\ env' = e
                /\ engine' = c.calls
                /\ client' = c
                /\ IF c.err # Nil
                   THEN /\ status' = StatusInternalServerError
                        /\ result' = "Could not fetch table fields"
                   ELSE /\ status' = StatusOK
                        /\ result' = [fields |-> c.resp]

(* The two decode paths over result sets of every column type.             *)
NextDecode ==
    \/ ExecuteQueryOn(DecodeExploreRequests, DecodeOutcomes)
    \/ ExecuteRawSQLOn(DecodeRawSQLRequests, DecodeOutcomes)
    \/ ServeNext

SpecDecode == Init /\ [][NextDecode]_vars

(* Every endpoint of the core, the explore query over a sample of its      *)
(* requests.                                                               *)
CoreExploreRequests ==
    {r \in ExploreRequests :
        /\ r.groupBy = <<>> /\ r.orderBy = "" /\ r.orderDir = ""
        /\ Len(r.fields) <= 1
        /\ r.aggregate \in {"", "count", "median"}
        /\ r.filterBy = "level" /\ r.filterVal = "error"
        /\ r.filterOp \in {"", "eq", "regex"}
        /\ r.limit \in {0, 5}}

NextCore ==
    \/ GetDatabases
    \/ GetTables
    \/ GetTableFields
    \/ ExecuteQueryBadBody
    \/ ExecuteQueryOn(CoreExploreRequests, ExploreOutcomes)
    \/ ServiceExecuteExploreQueryOn(CoreExploreRequests, ExploreOutcomes)
    \/ ExecuteRawSQLBadBody
    \/ ExecuteRawSQL
    \/ GetAutocompleteBadBody
    \/ GetAutocomplete
    \/ ServeNext

SpecCore == Init /\ [][NextCore]_vars

(* A caller that keeps its request and calls the client with it again,     *)
(* other callers' requests in between.                                     *)
FrameRequests ==
    {[database |-> "default", table |-> "otel_logs", fields |-> <<>>,
      aggregate |-> "", groupBy |-> <<>>, orderBy |-> "", orderDir |-> "",
      filterBy |-> "level", filterOp |-> fop, filterVal |-> "error",
      limit |-> l] : fop \in {"like", "eq", ""}, l \in {0, 5}}

FrameOps == {"ExecuteQuery", "ExecuteExploreQueryAgain", "ExecuteExploreQueryOther"}

(* ClickHouseClient.ExecuteExploreQuery called again with the caller's     *)
(* request as the previous call left it.                                   *)
ExecuteExploreQueryAgain ==
    /\ pc = "done"
    /\ UNCHANGED router
    /\ op \in FrameOps
    /\ engine # <<>>
    /\ Len(engine) < MaxCalls
    /\ \E e \in ExploreOutcomes :
        LET c == ClientExecuteExploreQuery(req, e) IN
        /\ op' = "ExecuteExploreQueryAgain"
        /\ req' = CallerRequest(req, CalleeRequest(req))
        /\ env' = e
        /\ engine' = engine \o c.calls
        /\ client' = c
        /\ UNCHANGED <<pc, bodyOk, status, result>>

(* ClickHouseClient.ExecuteExploreQuery called by another caller with its  *)
(* own request.                                                            *)
ExecuteExploreQueryOther ==
    /\ pc = "done"
    /\ UNCHANGED router
    /\ op \in FrameOps
    /\ engine # <<>>
    /\ Len(engine) < MaxCalls
    /\ \E r \in FrameRequests \ {req}, e \in ExploreOutcomes :
        LET c == ClientExecuteExploreQuery(r, e) IN
        /\ op' = "ExecuteExploreQueryOther"
        /\ env' = e
        /\ engine' = engine \o c.calls
        /\ client' = c
        /\ UNCHANGED <<pc, bodyOk, req, status, result>>

NextFrame ==
    \/ ExecuteQueryOn(FrameRequests, ExploreOutcomes)
    \/ ExecuteExploreQueryAgain
    \/ ExecuteExploreQueryOther
    \/ ServeNext

SpecFrame == Init /\ [][NextFrame]_vars

(* main before NewRouter has run.                                          *)
InitRouter ==
    /\ pc = "main"
    /\ op = "none"
    /\ bodyOk = TRUE
    /\ req = NoRequest
    /\ env = NoEnv
    /\ engine = <<>>
    /\ client = NoCall
    /\ status = 0
    /\ result = Nil
    /\ router = NoRouter

(* NewRouter: one connection attempt, then the routes.                     *)
NewRouter ==
    /\ pc = "main"
    /\ \E outcome \in ConnectOutcomes :
        /\ router' = Router(outcome)
        /\ pc' = "idle"
        /\ UNCHANGED <<op, bodyOk, req, env, engine, client, status, result>>

(* GET /logs/top100: LogsHandler.GetTop100Logs.                            *)
GetTop100Logs ==
    /\ pc = "idle"
    /\ Mounted("/api/v1/logs")
    /\ UNCHANGED router
    /\ \E e \in ListingOutcomes(Prefixes(<<"line 1", "line 2">>, MaxRows)) :
        LET c == ClientGetTop100Logs(e) IN
        /\ pc' = "done"
        /\ op' = "GetTop100Logs"
        /\ bodyOk' = TRUE
        /\ req' = [path |-> "/api/v1/logs"]
        /\ env' = e
        /\ engine' = c.calls
        /\ client' = c
        /\ IF c.err # Nil
           THEN /\ status' = StatusInternalServerError
                /\ result' = "Could not fetch logs"
           ELSE /\ status' = StatusOK
                /\ result' = c.resp

(* A request for a route that was not mounted: no handler runs.            *)
NotFound ==
    /\ pc = "idle"
    /\ UNCHANGED router
    /\ \E path \in RoutesOfEngine :
        /\ ~Mounted(path)
        /\ pc' = "done"
        /\ op' = "NotFound"
        /\ bodyOk' = TRUE
        /\ req' = [path |-> path]
        /\ env' = NoEnv
        /\ engine' = <<>>
        /\ client' = NoCall
        /\ status' = 0
        /\ result' = "404 page not found"

NextRouter ==
    \/ NewRouter
    \/ NextCore
    \/ GetTop100Logs
    \/ NotFound

SpecRouter == InitRouter /\ [][NextRouter]_vars

Next ==
    \/ GetDatabases
    \/ GetTables
    \/ GetTableFields
    \/ ExecuteQueryBadBody
    \/ ExecuteQuery
    \/ ServiceExecuteExploreQuery
    \/ ExecuteRawSQLBadBody
    \/ ExecuteRawSQL
    \/ GetAutocompleteBadBody
    \/ GetAutocomplete
    \/ ServeNext

Spec == Init /\ [][Next]_vars

----------------------------------------------------------------------------
(* Vocabulary of the properties                                            *)

ExploreOps == {"ExecuteQuery", "ServiceExecuteExploreQuery"}

(* A statement was built and sent for the current explore request.         *)
StatementBuilt == pc = "done" /\ op \in ExploreOps /\ engine # <<>>
BuiltQuery == engine[1].query
BuiltArgs == engine[1].args

TokenCount(q, t) == Cardinality({i \in 1..Len(q) : q[i] = t})

(* The data-model invariants of an ExploreRequest, as the specification    *)
(* states them.                                                            *)
FilterTripleSet(r) == {r.filterBy, r.filterOp, r.filterVal}
PartialFilter(r) == "" \in FilterTripleSet(r) /\ FilterTripleSet(r) # {""}
CompleteFilter(r) == "" \notin FilterTripleSet(r)
BadAggregate(r) == r.aggregate \notin {"", "count", "sum", "avg", "min", "max"}
BadFilterOp(r) ==
    r.filterOp \notin {"", "eq", "ne", "gt", "lt", "gte", "lte", "like"}
ViolatesDataModel(r) ==
    \/ r.limit < 0
    \/ r.limit > 10000
    \/ r.aggregate \in {"sum", "avg", "min", "max"} /\ r.fields = <<>>
    \/ PartialFilter(r)
    \/ BadAggregate(r)
    \/ BadFilterOp(r)
    \/ r.orderDir \notin {"", "asc", "desc"}
ValidRequest(r) ==
    r.database # "" /\ r.table # "" /\ ~ViolatesDataModel(r)

----------------------------------------------------------------------------
(* C1: for every valid request with aggregate = "count" (any fields, the   *)
(* empty list included) the statement built selects the row count, aliased *)
(* count, from <database>.<table> and ends with a LIMIT placeholder whose  *)
(* bound                                                                   *)
(* argument is the limit.  (The keyword AS is matched in either case.)     *)
C1_CountSelectsCountStar ==
    (StatementBuilt /\ ValidRequest(req) /\ req.aggregate = "count") =>
        /\ Len(BuiltQuery) >= 8
        /\ BuiltQuery[1] = "SELECT"
        /\ BuiltQuery[2] = "COUNT(*)"
        /\ BuiltQuery[3] \in {"AS", "as"}
        /\ BuiltQuery[4] = "count"
        /\ \E i \in 5..Len(BuiltQuery) - 1 :
              /\ BuiltQuery[i] = "FROM"
              /\ BuiltQuery[i + 1] = req.database \o "." \o req.table
        /\ BuiltQuery[Len(BuiltQuery) - 1] = "LIMIT"
        /\ BuiltQuery[Len(BuiltQuery)] = Placeholder(Len(BuiltArgs))
        /\ BuiltArgs[Len(BuiltArgs)] = (IF req.limit > 0 THEN req.limit ELSE 1000)

(* C3: on POST /explore/query every request that violates a data-model     *)
(* invariant is answered with a validation error (400) and no statement    *)
(* is sent to the engine for it.                                           *)
C3_HandlerValidatesFirst ==
    (pc = "done" /\ op = "ExecuteQuery" /\ bodyOk /\ ViolatesDataModel(req)) =>
        (status = 400 /\ engine = <<>>)

(* C6: the builder itself returns an error and issues no engine query for  *)
(* every request whose aggregate or filterOp is non-empty and outside its  *)
(* enum.                                                                   *)
C6_BuilderRejectsUnsupported ==
    (pc = "done" /\ client.called /\ (BadAggregate(req) \/ BadFilterOp(req))) =>
        (client.err # Nil /\ engine = <<>>)

(* C7: ValidateExploreRequest returns an error for every request whose     *)
(* filter triple is partially set.                                         *)
C7_ValidateRejectsPartialFilter ==
    (pc = "done" /\ op = "ServiceExecuteExploreQuery" /\ PartialFilter(req)) =>
        result.err = "validation error"

(* C8: a limit below 0 or above 10000 makes ValidateExploreRequest fail    *)
(* and ExploreService.ExecuteExploreQuery return a validation error        *)
(* without calling the database client; a limit in [0,10000] passes the    *)
(* limit check.                                                            *)
LimitErrors == {"limit cannot be negative", "limit cannot exceed 10000 rows"}
C8_LimitRange ==
    (pc = "done" /\ op = "ServiceExecuteExploreQuery") =>
        /\ (req.limit < 0 \/ req.limit > 10000) =>
              /\ result.err = "validation error"
              /\ client = NoCall
              /\ engine = <<>>
        /\ (req.limit >= 0 /\ req.limit <= 10000) =>
              /\ result.err = "validation error" => result.cause \notin LimitErrors
              /\ ValidRequest(req) => result.err # "validation error"
C8_Witness ==
    /\ pc = "done" /\ op = "ServiceExecuteExploreQuery"
    /\ req.limit = 10001
    /\ ValidRequest([req EXCEPT !.limit = 10000])
    /\ result.err = "validation error"
    /\ result.cause = "limit cannot exceed 10000 rows"
    /\ engine = <<>>

(* C9: every statement built contains exactly one LIMIT clause, it is the  *)
(* last clause, its value is a bound parameter (the last argument), and    *)
(* the bound value is req.limit when req.limit > 0 and 1000 otherwise.     *)
C9_LimitAlwaysLastAndBound ==
    StatementBuilt =>
        /\ TokenCount(BuiltQuery, "LIMIT") = 1
        /\ BuiltQuery[Len(BuiltQuery) - 1] = "LIMIT"
        /\ BuiltQuery[Len(BuiltQuery)] = Placeholder(Len(BuiltArgs))
        /\ Len(BuiltArgs) \in {1, 2}
        /\ BuiltArgs[Len(BuiltArgs)] = (IF req.limit > 0 THEN req.limit ELSE 1000)
C9_Witness ==
    /\ StatementBuilt
    /\ req.limit = 0
    /\ CompleteFilter(req)
    /\ req.orderBy # "" /\ req.groupBy # <<>>
    /\ BuiltQuery[Len(BuiltQuery)] = "$2"
    /\ BuiltArgs[2] = 1000

(* C10: with a complete filter triple the bound filter argument is         *)
(* "%" + filterVal + "%" for like and filterVal unchanged for eq, ne, gt,  *)
(* lt, gte and lte.                                                        *)
C10_FilterArgument ==
    (StatementBuilt /\ CompleteFilter(req)) =>
        /\ Len(BuiltArgs) = 2
        /\ req.filterOp = "like" => BuiltArgs[1] = "%" \o req.filterVal \o "%"
        /\ req.filterOp \in {"eq", "ne", "gt", "lt", "gte", "lte"} =>
              BuiltArgs[1] = req.filterVal
C10_Witness ==
    /\ StatementBuilt
    /\ CompleteFilter(req)
    /\ req.filterOp = "like"
    /\ req.filterVal = "error"
    /\ BuiltArgs[1] = "%error%"

(* C2: a raw SQL request whose query, trimmed and lowercased, starts with  *)
(* drop, delete, truncate, alter, create, insert or update is answered     *)
(* with status 400 and the engine (QueryRaw) is never called for it.       *)
BlockedWords == {KwDrop, KwDelete, KwTruncate, KwAlter, KwCreate, KwInsert, KwUpdate}
StartsWithBlockedWord(query) ==
    \E w \in BlockedWords : HasPrefix(ToLower(TrimSpace(query)), w)
C2_BlockedStatementsRejected ==
    (pc = "done" /\ op = "ExecuteRawSQL" /\ StartsWithBlockedWord(req.query)) =>
        (status = 400 /\ engine = <<>> /\ client = NoCall)
C2_Witness ==
    /\ pc = "done" /\ op = "ExecuteRawSQL" /\ bodyOk
    /\ req.database # ""
    /\ Len(req.query) > 2
    /\ IsSpace(req.query[1])
    /\ \E i \in 1..Len(req.query) : IsUpper(req.query[i])
    /\ StartsWithBlockedWord(req.query)
    /\ status = 400
    /\ result = "Only SELECT queries are allowed"
    /\ engine = <<>>

(* C4: for every database, query text and cursor position, a position     *)
(* below 0 or beyond the end of the query included,                        *)
(* getAutocompleteSuggestions completes and returns at most 20             *)
(* suggestions; it never fails or aborts the request.                      *)
C4_AutocompleteAlwaysCompletes ==
    (pc = "done" /\ op = "GetAutocomplete" /\ bodyOk /\ req.database # "") =>
        /\ status = 200
        /\ Len(result.suggestions) <= 20

(* C5: autocomplete with the cursor at the end of a query such as          *)
(* "SELECT * FROM " (empty token, "from" before the cursor) runs the       *)
(* table pass and the returned suggestions contain every table of the      *)
(* database.                                                               *)
AtEndAfterFrom(r) ==
    /\ r.position = Len(r.query)
    /\ getWordAtPosition(r.query, r.position) = <<>>
    /\ Occurrences(ToLower(r.query), KwFrom) # {}
C5_AllTablesAfterFrom ==
    (/\ pc = "done" /\ op = "GetAutocomplete" /\ bodyOk /\ req.database # ""
     /\ AtEndAfterFrom(req) /\ ~env.tablesErr) =>
        /\ status = 200
        /\ \E i \in 1..Len(engine) : engine[i].query = "system.tables"
        /\ \A t \in 1..Len(env.tables) :
              \E i \in 1..Len(result.suggestions) :
                  result.suggestions[i] = [text |-> env.tables[t], type |-> "table"]

----------------------------------------------------------------------------
(* Vocabulary of the properties about responses                            *)

HandlerOps == {"GetDatabases", "GetTables", "GetTableFields", "ExecuteQuery",
               "ExecuteRawSQL", "GetAutocomplete"}

(* A handler has answered the current request.                             *)
Answered == pc = "done" /\ op \in HandlerOps

(* An engine call of the current request failed.                           *)
EngineFailed ==
    /\ engine # <<>>
    /\ IF op = "GetAutocomplete"
       THEN \/ env.tablesErr /\ \E i \in 1..Len(engine) : engine[i].query = "system.tables"
            \/ env.fieldsErr /\ \E i \in 1..Len(engine) : engine[i].query = "system.columns"
       ELSE env.queryErr \/ env.rowsErr

(* C11: every error response has a status of its class: 400 for a          *)
(* validation failure, in particular for an unsupported aggregate or        *)
(* filterOp, and 500 only when an engine call failed.                       *)
C11_StatusReflectsClass ==
    (Answered /\ status # 200) =>
        /\ status \in {400, 500}
        /\ (status = 500 => EngineFailed)
        /\ ((op = "ExecuteQuery" /\ bodyOk /\ (BadAggregate(req) \/ BadFilterOp(req)))
                => status = 400)

----------------------------------------------------------------------------
(* Vocabulary of the properties about decoding                             *)

DecodeOps == {"ExecuteQuery", "ExecuteRawSQL"}

(* The engine answered the statement of the current request.               *)
EngineAnswered == pc = "done" /\ op \in DecodeOps /\ engine # <<>> /\ ~env.queryErr

(* Positions of the stream whose row scanned.                              *)
ScannedPositions == {i \in 1..Len(env.rows) : env.rows[i].scanOk}

(* C12: in both decode paths a row that fails to scan is skipped: the rows  *)
(* returned are exactly the rows of the stream that scanned, in stream      *)
(* order, and the call succeeds.                                            *)
C12_FailedRowsSkipped ==
    (EngineAnswered /\ ~env.rowsErr) =>
        /\ client.err = Nil
        /\ status = 200
        /\ Len(client.resp.data) = Cardinality(ScannedPositions)
        /\ \A k \in 1..Len(client.resp.data) : client.resp.data[k].id \in ScannedPositions
        /\ \A k \in 1..(Len(client.resp.data) - 1) :
              client.resp.data[k].id < client.resp.data[k + 1].id
        /\ result.total = Cardinality(ScannedPositions)

(* A row failed to scan and a later row of the same stream scanned.         *)
C12_Witness ==
    /\ EngineAnswered /\ ~env.rowsErr
    /\ op = "ExecuteRawSQL"
    /\ \E i, j \in 1..Len(env.rows) :
          i < j /\ ~env.rows[i].scanOk /\ env.rows[j].scanOk
    /\ Len(client.resp.data) >= 1

(* C13: when iterating the stream itself fails, both decode paths return    *)
(* an error and no columns or rows, also when rows were already decoded,    *)
(* and the handler answers 500, not a partial result.                       *)
C13_StreamErrorAborts ==
    (EngineAnswered /\ env.rowsErr) =>
        /\ client.err # Nil
        /\ client.resp = Nil
        /\ status = 500
        /\ result \in {"Could not execute query", "Failed to execute query"}

(* The stream failed after a row had scanned.                               *)
C13_Witness ==
    /\ EngineAnswered /\ env.rowsErr
    /\ op = "ExecuteRawSQL"
    /\ ScannedPositions # {}
    /\ status = 500

(* The typed path answered with rows.                                       *)
TypedAnswer == EngineAnswered /\ op = "ExecuteRawSQL" /\ status = 200

TimestampTags ==
    {TypeTag.DateTime64Milli, TypeTag.DateTime64Nano, TypeTag.DateTime, TypeTag.Date}
SignedTags == {TypeTag.Int8, TypeTag.Int16, TypeTag.Int32, TypeTag.Int64}
UnsignedTags == {TypeTag.UInt8, TypeTag.UInt16, TypeTag.UInt32, TypeTag.UInt64}
FloatTags == {TypeTag.Float32, TypeTag.Float64}

(* The decoded kinds the type table gives for a tag.                        *)
KindsOfTag(tag) ==
    IF tag \in TimestampTags THEN {"timestamp", "null"}
    ELSE IF tag \in SignedTags THEN {"int64"}
    ELSE IF tag \in UnsignedTags THEN {"uint64"}
    ELSE IF tag \in FloatTags THEN {"float64"}
    ELSE IF tag = TypeTag.Bool THEN {"bool"}
    ELSE IF tag = TypeTag.Map THEN {"map"}
    ELSE {"string"}

(* C14: in the typed path the decoded kind of every value is the kind its   *)
(* column's declared type tag gives, whatever the value: timestamp or null  *)
(* for DateTime64*, DateTime, Date; string for String, FixedString*,        *)
(* LowCardinality(String), UUID, Array(...) and unknown tags; int64,        *)
(* uint64, float64, bool and map for the others.                            *)
C14_KindByTypeTag ==
    TypedAnswer =>
        \A k \in 1..Len(result.rows) : \A i \in 1..Len(env.columns) :
            result.rows[k].values[env.columns[i].name].kind
                \in KindsOfTag(env.columns[i].type)

(* An unsigned column and a column of an unknown tag are decoded;           *)
(* the state is one of a UInt16 column holding 65535.                       *)
C14_Witness ==
    /\ TypedAnswer
    /\ env.columns[1].type = TypeTag.UInt16
    /\ Len(result.rows) = 2
    /\ result.rows[2].values["c"] = Decoded("uint64", 65535)

(* The cell the engine delivered for value i of returned row k.             *)
CellOf(k, i) == env.rows[result.rows[k].id].cells[i]

(* C15: in the typed path a decoded value is null exactly when its column   *)
(* is timestamp-tagged and the scanned time is the zero time; an empty      *)
(* string stays an empty string and an unset map becomes an empty map.      *)
C15_NullOnlyForZeroTime ==
    TypedAnswer =>
        \A k \in 1..Len(result.rows) : \A i \in 1..Len(env.columns) :
            LET tag == env.columns[i].type
                val == result.rows[k].values[env.columns[i].name]
            IN /\ (val.kind = "null") <=> (tag \in TimestampTags /\ CellOf(k, i).val = ZeroTime)
               /\ (tag \in {TypeTag.String, TypeTag.FixedString, TypeTag.LowCardinality}
                     /\ CellOf(k, i).val = "") => val = Decoded("string", "")
               /\ (tag = TypeTag.Map /\ CellOf(k, i).val.isNil) => val = Decoded("map", {})

(* A row holding the zero time, an empty string and an unset map was        *)
(* decoded.                                                                 *)
C15_Witness ==
    /\ TypedAnswer
    /\ env.columns = MixedColumns
    /\ Len(result.rows) >= 1
    /\ result.rows[1].values["ts"].kind = "null"
    /\ result.rows[1].values["body"] = Decoded("string", "")
    /\ result.rows[1].values["attrs"] = Decoded("map", {})

----------------------------------------------------------------------------
(* Vocabulary of the properties about engine round trips                   *)

(* The engine round trips of the current request.                           *)
RoundTrips == Len(engine)

(* C16 as stated: every request of the core makes at most one round trip    *)
(* to the engine.  Autocomplete refutes it.                                 *)
C16_AtMostOneRoundTrip == Answered => RoundTrips <= 1

(* C16: schema listing, explore query and raw SQL requests make at most     *)
(* one round trip to the engine; an autocomplete request makes at most      *)
(* two, one listing the tables and one listing the columns, in that order.  *)
C16_RoundTripsPerRequest ==
    Answered =>
        IF op = "GetAutocomplete"
        THEN /\ RoundTrips <= 2
             /\ RoundTrips = 2 =>
                   /\ engine[1].query = "system.tables"
                   /\ engine[2].query = "system.columns"
        ELSE RoundTrips <= 1

(* An autocomplete request that listed the tables and the columns.          *)
C16_Witness ==
    /\ Answered /\ op = "GetAutocomplete"
    /\ RoundTrips = 2
    /\ status = 200

(* C17 as stated: a failed engine call is not attempted again and is        *)
(* surfaced once as an error response.  Autocomplete refutes it.            *)
C17_FailureSurfacedAsError ==
    (Answered /\ EngineFailed) =>
        /\ \A i, j \in 1..RoundTrips : i # j => engine[i] # engine[j]
        /\ status = 500

(* C17: no engine call of a request is made twice; a failed call of a       *)
(* schema listing, explore query or raw SQL request ends the request with   *)
(* one 500 error response; a failed call of an autocomplete request is      *)
(* not surfaced, the request is answered 200.                               *)
C17_NoRetry ==
    Answered =>
        /\ \A i, j \in 1..RoundTrips : i # j => engine[i] # engine[j]
        /\ EngineFailed =>
              IF op = "GetAutocomplete"
              THEN status = 200
              ELSE /\ status = 500
                   /\ RoundTrips = 1
                   /\ result \in {"Could not fetch databases", "Could not fetch tables",
                                  "Could not fetch table fields",
                                  "Could not execute query", "Failed to execute query"}

(* The engine refused the statement of a raw SQL request.                   *)
C17_Witness ==
    /\ Answered /\ op = "ExecuteRawSQL"
    /\ EngineFailed /\ env.queryErr
    /\ status = 500

----------------------------------------------------------------------------
(* A raw SQL request with a database whose text starts with no blocked     *)
(* keyword.                                                                *)
UnblockedRawSQL ==
    /\ pc = "done" /\ op = "ExecuteRawSQL" /\ bodyOk
    /\ req.database # ""
    /\ ~StartsWithBlockedWord(req.query)

(* The text was forwarded unchanged in one engine call without arguments,   *)
(* and the request failed only if the engine did.                           *)
ForwardedVerbatim ==
    /\ engine = <<[fn |-> "conn.Query", query |-> req.query, args |-> <<>>]>>
    /\ status \in {200, 500}
    /\ (status = 500) <=> (env.queryErr \/ env.rowsErr)
    /\ status = 200 => result.query = req.query

(* C18 as stated: every raw SQL request with a database whose text starts   *)
(* with no blocked keyword is forwarded unchanged.  The empty text refutes  *)
(* it.                                                                      *)
C18_AnyOtherTextForwarded == UnblockedRawSQL => ForwardedVerbatim

(* C18: every raw SQL request with a non-empty database and a non-empty     *)
(* query text that starts, trimmed and lowercased, with no blocked keyword  *)
(* is accepted and its text forwarded unchanged to the engine; it fails     *)
(* only with the engine's own error, answered 500.  The empty text is       *)
(* answered 400 and not forwarded.                                          *)
C18_NonEmptyTextForwarded ==
    UnblockedRawSQL =>
        IF req.query = <<>>
        THEN status = 400 /\ engine = <<>>
        ELSE ForwardedVerbatim

(* A text with leading white space and upper case letters was forwarded.    *)
C18_Witness ==
    /\ UnblockedRawSQL
    /\ Len(req.query) > 2
    /\ IsSpace(req.query[1])
    /\ IsSpace(req.query[Len(req.query)])
    /\ \E i \in 1..Len(req.query) : IsUpper(req.query[i])
    /\ status = 200
    /\ engine[1].query = req.query

----------------------------------------------------------------------------
(* Vocabulary of the properties about autocomplete                         *)

AutocompleteAnswered == pc = "done" /\ op = "GetAutocomplete" /\ bodyOk

(* The schema calls the current autocomplete request made.                  *)
TablesCalled == \E i \in 1..Len(engine) : engine[i].query = "system.tables"
ColumnsCalled == \E i \in 1..Len(engine) : engine[i].query = "system.columns"

(* The token under the cursor of the current request.                       *)
Token == getWordAtPosition(req.query, req.position)

FirstTwenty(suggestions) ==
    SubSeq(suggestions, 1, IF Len(suggestions) < 20 THEN Len(suggestions) ELSE 20)

OfType(suggestions, type) == SelectSeq(suggestions, LAMBDA x : x.type = type)

CaseInsensitivePrefix(token, text) ==
    /\ Len(token) <= Len(text)
    /\ \A i \in 1..Len(token) : ToLower(<<token[i]>>) = ToLower(<<text[i]>>)

TokenSel == <<"s", "e", "l">>
KeywordSelect == <<"S", "E", "L", "E", "C", "T">>

(* C20: every keyword suggestion of an autocomplete answer starts with the  *)
(* token under the cursor, letter case ignored; an answer of fewer than     *)
(* twenty suggestions holds every keyword of the list that starts with the  *)
(* token; for the token sel the answer holds SELECT and no other keyword.   *)
C20_KeywordPass ==
    (AutocompleteAnswered /\ status = 200) =>
        LET keywords == OfType(result.suggestions, "keyword") IN
        /\ \A i \in 1..Len(keywords) : CaseInsensitivePrefix(Token, keywords[i].text)
        /\ \A i \in 1..Len(keywords) :
              \E k \in 1..Len(Keywords) : keywords[i].text = Keywords[k]
        /\ Len(result.suggestions) < 20 =>
              \A k \in 1..Len(Keywords) :
                  CaseInsensitivePrefix(Token, Keywords[k]) =>
                      \E i \in 1..Len(keywords) : keywords[i].text = Keywords[k]
        /\ Token = TokenSel =>
              /\ Len(keywords) = 1
              /\ keywords[1].text = KeywordSelect

(* The token sel was completed.                                             *)
C20_Witness ==
    /\ AutocompleteAnswered /\ status = 200
    /\ req.query = TokenSel
    /\ Token = TokenSel
    /\ result.suggestions = <<Suggestion(KeywordSelect, "keyword")>>

----------------------------------------------------------------------------
(* The rows of the current 200 answer of a decode path.                     *)
ReturnedRows == IF op = "ExecuteQuery" THEN result.data ELSE result.rows

(* C21: in every successful explore and raw SQL response total is the       *)
(* number of row objects returned, that is of the rows that scanned, not    *)
(* the number of rows the engine produced.                                  *)
C21_TotalCountsReturnedRows ==
    (EngineAnswered /\ status = 200) =>
        /\ result.total = Len(ReturnedRows)
        /\ result.total = Cardinality(ScannedPositions)

(* An explore answer whose total is below the number of rows the engine     *)
(* produced.                                                                *)
C21_Witness ==
    /\ EngineAnswered /\ status = 200
    /\ op = "ExecuteQuery"
    /\ result.total = 1
    /\ Len(env.rows) = 2
    /\ Len(result.data) = 1

----------------------------------------------------------------------------
(* An autocomplete request was answered with suggestions.                   *)
Suggested == AutocompleteAnswered /\ status = 200

(* The texts of a list that start with the token, letter case ignored,      *)
(* in the order of the list, each as a suggestion of the given kind.        *)
Matching(texts, kind) ==
    LET kept == SelectSeq(texts, LAMBDA t : CaseInsensitivePrefix(Token, t))
    IN [i \in 1..Len(kept) |-> [text |-> kept[i], type |-> kind]]

FieldNames == [i \in 1..Len(env.fields) |-> env.fields[i].name]

(* What the table pass and the column pass of the current request found.    *)
TablesFound ==
    IF TablesCalled /\ ~env.tablesErr THEN Matching(env.tables, "table") ELSE <<>>
ColumnsFound ==
    IF ColumnsCalled /\ ~env.fieldsErr THEN Matching(FieldNames, "column") ELSE <<>>

KindRank(type) == CASE type = "keyword" -> 1 [] type = "table" -> 2 [] type = "column" -> 3

(* C22: the autocomplete result is the keyword suggestions, then the table  *)
(* suggestions, then the column suggestions, cut to its first 20 entries:   *)
(* no table precedes a keyword, no column precedes a table or a keyword,    *)
(* and within a kind the order is that of the keyword list or of the        *)
(* introspector's output.                                                   *)
C22_KeywordsTablesColumns ==
    Suggested =>
        /\ Len(result.suggestions) <= 20
        /\ \A i, j \in 1..Len(result.suggestions) :
              i < j => KindRank(result.suggestions[i].type)
                          <= KindRank(result.suggestions[j].type)
        /\ result.suggestions =
              FirstTwenty(Matching(Keywords, "keyword") \o TablesFound \o ColumnsFound)

(* An answer holding a keyword, then a table, then a column.                *)
C22_Witness ==
    /\ Suggested
    /\ Len(result.suggestions) = 3
    /\ result.suggestions[1].type = "keyword"
    /\ result.suggestions[2].type = "table"
    /\ result.suggestions[3].type = "column"
    /\ env.tables = <<TableNames[3], TableNames[1]>>

----------------------------------------------------------------------------
(* sub occurs in text.                                                      *)
Contains(text, sub) ==
    \E i \in 1..(Len(text) - Len(sub) + 1) : SubSeq(text, i, i + Len(sub) - 1) = sub

(* The lowercased text before the cursor of the current request: all of     *)
(* the text for a cursor beyond its end, none for a negative cursor.        *)
TextBeforeCursor ==
    LET upTo == IF req.position < 0 THEN 0
                ELSE IF req.position > Len(req.query) THEN Len(req.query)
                ELSE req.position
    IN ToLower(SubSeq(req.query, 1, upTo))

(* C23: the table pass runs (GetTables is called) exactly when the          *)
(* lowercased text before the cursor contains from or join; when it ran,    *)
(* the table suggestions of the answer are exactly the tables whose name    *)
(* starts with the token, letter case ignored.                              *)
C23_TablePass ==
    (AutocompleteAnswered /\ req.database # "") =>
        /\ TablesCalled <=>
              (Contains(TextBeforeCursor, KwFrom) \/ Contains(TextBeforeCursor, KwJoin))
        /\ (TablesCalled /\ ~env.tablesErr) =>
              /\ status = 200
              /\ OfType(result.suggestions, "table") = Matching(env.tables, "table")

(* The same for a cursor inside the text and an answer below the cap of     *)
(* twenty: the part of C23 the code keeps.                                  *)
C23_TablePassInRange ==
    (AutocompleteAnswered /\ req.database # ""
        /\ req.position >= 0 /\ req.position <= Len(req.query)) =>
        /\ status = 200
        /\ TablesCalled <=>
              (Contains(TextBeforeCursor, KwFrom) \/ Contains(TextBeforeCursor, KwJoin))
        /\ (TablesCalled /\ ~env.tablesErr /\ Len(result.suggestions) < 20) =>
              OfType(result.suggestions, "table") = Matching(env.tables, "table")

----------------------------------------------------------------------------
(* The token after the first from of the current query, as the query        *)
(* spells it; the empty text when there is none.                            *)
TableAfterFrom ==
    LET fromIndex == Index(ToLower(req.query), KwFrom) IN
    IF fromIndex = -1 THEN <<>>
    ELSE FirstField(TrimSpace(SubSeq(req.query, fromIndex + 5, Len(req.query))))

(* The table the column pass of the current request asked the fields of.    *)
ColumnsCall == CHOOSE i \in 1..Len(engine) : engine[i].query = "system.columns"

(* C24: the column pass runs exactly when the query contains from followed  *)
(* by a whitespace-delimited token, and the table whose fields it fetches   *)
(* is that token as it appears in the query.                                *)
C24_ColumnPass ==
    (AutocompleteAnswered /\ req.database # "") =>
        /\ ColumnsCalled <=> (TableAfterFrom # <<>>)
        /\ ColumnsCalled =>
              engine[ColumnsCall].args = <<req.database, TableAfterFrom>>

(* The same for a cursor inside the text, the table name compared in lower  *)
(* case: the part of C24 the code keeps.                                    *)
C24_ColumnPassLowercased ==
    (AutocompleteAnswered /\ req.database # ""
        /\ req.position >= 0 /\ req.position <= Len(req.query)) =>
        /\ ColumnsCalled <=> (TableAfterFrom # <<>>)
        /\ ColumnsCalled =>
              engine[ColumnsCall].args = <<req.database, ToLower(TableAfterFrom)>>

----------------------------------------------------------------------------
(* Alphanumeric or underscore.                                              *)
IsWordCharacter(c) ==
    c \in {LowerLetters[i] : i \in 1..26} \cup {UpperLetters[i] : i \in 1..26}
            \cup Digits \cup {"_"}

(* query[start:end] is the maximal run of word characters touching          *)
(* position; start and end count characters from 0, end is exclusive.       *)
MaximalRunAt(query, position, start, end) ==
    /\ start <= position /\ position <= end
    /\ \A i \in (start + 1)..end : IsWordCharacter(query[i])
    /\ start > 0 => ~IsWordCharacter(query[start])
    /\ end < Len(query) => ~IsWordCharacter(query[end + 1])

(* C25: for a position in 0..len(query) getWordAtPosition returns the       *)
(* maximal contiguous run of alphanumeric or underscore characters that     *)
(* touches the cursor; for a position outside it returns the empty token.   *)
C25_WordAtPosition ==
    (AutocompleteAnswered /\ req.database # "") =>
        IF req.position >= 0 /\ req.position <= Len(req.query)
        THEN \E start, end \in 0..Len(req.query) :
                /\ MaximalRunAt(req.query, req.position, start, end)
                /\ Token = SubSeq(req.query, start + 1, end)
        ELSE Token = <<>>

(* The cursor stands inside a word that holds an underscore.                *)
C25_Witness ==
    /\ AutocompleteAnswered /\ req.database # ""
    /\ req.position >= 0 /\ req.position <= Len(req.query)
    /\ Len(Token) = 9
    /\ Token[5] = "_"
    /\ IsUpper(Token[1])
    /\ \E start \in 1..(Len(req.query) - 9) :
          /\ SubSeq(req.query, start + 1, start + 9) = Token
          /\ req.position = start + 3

----------------------------------------------------------------------------
(* The positions of the statement that hold a placeholder.                  *)
PlaceholderTokens == {"$1", "$2", "$3", "$4"}
PlaceholderPositions(q) == {i \in 1..Len(q) : q[i] \in PlaceholderTokens}
LimitValue(r) == IF r.limit > 0 THEN r.limit ELSE 1000

(* C26: in every built statement placeholders and arguments agree: WHERE    *)
(* is emitted exactly when filterBy, filterOp and filterVal are all         *)
(* non-empty; it binds one parameter, $1, and LIMIT then uses $2; without   *)
(* WHERE, LIMIT uses $1; there are as many arguments as placeholders (1 or  *)
(* 2) and the filter argument comes before the limit argument.              *)
C26_PlaceholdersAgreeWithArgs ==
    StatementBuilt =>
        LET q == BuiltQuery
            ph == PlaceholderPositions(q)
            where == {i \in 1..Len(q) : q[i] = "WHERE"}
        IN /\ (where # {}) <=> CompleteFilter(req)
           /\ Cardinality(where) <= 1
           /\ Cardinality(ph) = Len(BuiltArgs)
           /\ Len(BuiltArgs) \in {1, 2}
           /\ CompleteFilter(req) =>
                 /\ \E w \in where :
                       /\ w + 3 < Len(q) - 1
                       /\ q[w + 1] = req.filterBy
                       /\ q[w + 3] = "$1"
                       /\ ph = {w + 3, Len(q)}
                 /\ q[Len(q) - 1] = "LIMIT" /\ q[Len(q)] = "$2"
                 /\ Len(BuiltArgs) = 2
                 /\ BuiltArgs[1] \in {req.filterVal, "%" \o req.filterVal \o "%"}
                 /\ BuiltArgs[2] = LimitValue(req)
           /\ ~CompleteFilter(req) =>
                 /\ ph = {Len(q)}
                 /\ q[Len(q) - 1] = "LIMIT" /\ q[Len(q)] = "$1"
                 /\ Len(BuiltArgs) = 1
                 /\ BuiltArgs[1] = LimitValue(req)

(* A filtered, grouped and ordered statement: $1 in WHERE, $2 in LIMIT.     *)
C26_Witness ==
    /\ StatementBuilt
    /\ CompleteFilter(req)
    /\ req.filterOp = "gte" /\ req.limit = 5
    /\ req.groupBy # <<>> /\ req.orderBy # ""
    /\ \E i \in 1..Len(BuiltQuery) :
          BuiltQuery[i] = "WHERE" /\ BuiltQuery[i + 3] = "$1"
    /\ BuiltQuery[Len(BuiltQuery)] = "$2"
    /\ BuiltArgs[1] = "error" /\ BuiltArgs[2] = 5

(* The same without a filter: LIMIT binds $1.                               *)
C26_WitnessNoFilter ==
    /\ StatementBuilt
    /\ PartialFilter(req)
    /\ BuiltQuery[Len(BuiltQuery)] = "$1"
    /\ Len(BuiltArgs) = 1

----------------------------------------------------------------------------
(* q holds the columns cols, comma separated, from position first on, and   *)
(* the list ends there.                                                     *)
ListsColumnsAt(q, first, cols) ==
    /\ first + 2 * Len(cols) - 2 <= Len(q)
    /\ \A k \in 1..Len(cols) : q[first + 2 * k - 2] = cols[k]
    /\ \A k \in 1..(Len(cols) - 1) : q[first + 2 * k - 1] = ","
    /\ first + 2 * Len(cols) - 1 <= Len(q) => q[first + 2 * Len(cols) - 1] # ","

Grouped(r) == r.aggregate # "" /\ r.fields # <<>> /\ r.groupBy # <<>>

(* C27: a GROUP BY clause is emitted exactly when groupBy is non-empty and  *)
(* lists the group-by columns in the given order; with an aggregate and     *)
(* non-empty fields the select list is the aggregate expression followed    *)
(* by the same columns in the same order.                                   *)
C27_GroupColumnsSelectedAndGrouped ==
    StatementBuilt =>
        LET q == BuiltQuery
            group == {i \in 1..Len(q) : q[i] = "GROUP BY"}
        IN /\ (group # {}) <=> (req.groupBy # <<>>)
           /\ Cardinality(group) <= 1
           /\ \A g \in group : ListsColumnsAt(q, g + 1, req.groupBy)
           /\ Grouped(req) =>
                 /\ q[1] = "SELECT"
                 /\ q[3] \in {"as", "AS"}
                 /\ q[5] = ","
                 /\ ListsColumnsAt(q, 6, req.groupBy)
                 /\ q[5 + 2 * Len(req.groupBy)] = "FROM"

(* Two group-by columns after an average, selected and grouped in order.    *)
C27_Witness ==
    /\ StatementBuilt
    /\ req.aggregate = "avg"
    /\ req.fields # <<>>
    /\ Len(req.groupBy) = 2
    /\ SubSeq(BuiltQuery, 5, 9) = <<",", req.groupBy[1], ",", req.groupBy[2], "FROM">>
    /\ \E g \in 1..Len(BuiltQuery) :
          SubSeq(BuiltQuery, g, g + 3) =
              <<"GROUP BY", req.groupBy[1], ",", req.groupBy[2]>>

----------------------------------------------------------------------------
(* A request that passed validation with a numeric aggregate was handled.   *)
NumericAggregates == {"sum", "avg", "min", "max"}
FunctionName == [sum |-> "SUM", avg |-> "AVG", min |-> "MIN", max |-> "MAX"]
ValidNumericAggregate ==
    /\ pc = "done" /\ op \in ExploreOps /\ bodyOk
    /\ ValidateExploreRequest(req) = Nil
    /\ req.aggregate \in NumericAggregates

(* The select list of a statement: the tokens between SELECT and FROM.      *)
FromPosition(q) == Min({i \in 1..Len(q) : q[i] = "FROM"})
SelectList(q) == SubSeq(q, 2, FromPosition(q) - 1)
InSelectList(q, name) == \E i \in 2..(FromPosition(q) - 1) : q[i] = name

(* The select list starts with FN(fields[0]) AS fn_fields[0]; the keyword   *)
(* is matched in either case.                                               *)
StartsWithAggregateOfFirstField ==
    /\ Len(SelectList(BuiltQuery)) >= 3
    /\ BuiltQuery[2] = FunctionName[req.aggregate] \o "(" \o req.fields[1] \o ")"
    /\ BuiltQuery[3] \in {"AS", "as"}
    /\ BuiltQuery[4] = req.aggregate \o "_" \o req.fields[1]

(* C28 as stated: a request that passes ValidateExploreRequest with a       *)
(* numeric aggregate has non-empty fields, its select list starts with the  *)
(* aggregate of fields[0], and no other entry of fields appears in the      *)
(* select list.                                                             *)
C28_AggregateTargetsFirstFieldOnly ==
    ValidNumericAggregate =>
        /\ req.fields # <<>>
        /\ StatementBuilt =>
              /\ StartsWithAggregateOfFirstField
              /\ \A k \in 2..Len(req.fields) :
                    ~InSelectList(BuiltQuery, req.fields[k])

(* C28 amended: a request that passes ValidateExploreRequest with a numeric *)
(* aggregate has non-empty fields, its select list starts with the          *)
(* aggregate of fields[0] and continues with the groupBy columns only: an   *)
(* entry of fields other than fields[0] appears in the select list exactly  *)
(* when groupBy names it, as a group key.                                   *)
C28_AggregateTargetsFirstField ==
    ValidNumericAggregate =>
        /\ req.fields # <<>>
        /\ StatementBuilt =>
              /\ StartsWithAggregateOfFirstField
              /\ Len(SelectList(BuiltQuery)) = 3 + 2 * Len(req.groupBy)
              /\ \A k \in 1..Len(req.groupBy) :
                    /\ BuiltQuery[3 + 2 * k] = ","
                    /\ BuiltQuery[4 + 2 * k] = req.groupBy[k]
              /\ \A k \in 2..Len(req.fields) :
                    InSelectList(BuiltQuery, req.fields[k]) <=>
                        \E g \in 1..Len(req.groupBy) : req.groupBy[g] = req.fields[k]

(* The second field is selected as a group key next to the aggregate.       *)
C28_Witness ==
    /\ ValidNumericAggregate
    /\ StatementBuilt
    /\ op = "ServiceExecuteExploreQuery"
    /\ req.aggregate = "max"
    /\ Len(req.fields) = 2
    /\ req.groupBy # <<>> /\ req.groupBy[1] = req.fields[2]
    /\ SubSeq(BuiltQuery, 2, 6) =
          <<"MAX(" \o req.fields[1] \o ")", "as", "max_" \o req.fields[1], ",",
            req.fields[2]>>

----------------------------------------------------------------------------
(* A step in which the client was called again while a request is held.     *)
CalledAgain == pc = "done" /\ pc' = "done"
LastCall(calls) == calls[Len(calls)]

(* C29: ExecuteExploreQuery leaves the caller's request as it was, the      *)
(* filterVal of a like filter included, so a call repeated with the same    *)
(* request, directly or after calls for other requests, sends the same SQL  *)
(* text and the same arguments as the first one: the like value is wrapped  *)
(* once.                                                                    *)
C29_CallChangesNothingOutside ==
    [][CalledAgain =>
          /\ req' = req
          /\ op' = "ExecuteExploreQueryAgain" =>
                /\ Len(engine') = Len(engine) + 1
                /\ LastCall(engine') = engine[1]
                /\ req.filterOp = "like" =>
                      LastCall(engine').args[1] = "%" \o req.filterVal \o "%"]_vars

(* The like request was built, another request was built, and the like      *)
(* request was built again with the value wrapped once.                     *)
C29_Witness ==
    /\ pc = "done"
    /\ op = "ExecuteExploreQueryAgain"
    /\ req.filterOp = "like" /\ req.filterVal = "error"
    /\ Len(engine) = 3
    /\ engine[2].query # engine[1].query
    /\ engine[3].query = engine[1].query
    /\ engine[1].args[1] = "%error%"
    /\ engine[3].args[1] = "%error%"

----------------------------------------------------------------------------
(* The operations that use the database client.                             *)
EngineBackedOps == HandlerOps \cup {"ServiceExecuteExploreQuery", "GetTop100Logs"}
EngineBackedRoutes == {"/api/v1/logs", "/api/v1/explore"}
RouterBuilt == pc # "main"
ConnectFailed == router.err # Nil

(* C30: the engine-backed endpoints are available or not from router        *)
(* construction on: after a failed connection or ping neither /api/v1/logs  *)
(* nor /api/v1/explore is mounted, after a successful one both are; the     *)
(* router never changes afterwards, and no handler runs without a database  *)
(* client.                                                                  *)
C30_AvailabilityFixedAtConstruction ==
    /\ [](RouterBuilt =>
            /\ ConnectFailed => router.mounted \cap EngineBackedRoutes = {}
            /\ ~ConnectFailed => EngineBackedRoutes \subseteq router.mounted
            /\ (pc = "done" /\ op \in EngineBackedOps) =>
                  /\ ~ConnectFailed
                  /\ router.clickhouseClient # "nil")
    /\ [][RouterBuilt => router' = router]_vars

(* The ping failed and a request for the explore route found no handler.    *)
C30_Witness ==
    /\ pc = "done"
    /\ op = "NotFound"
    /\ router.err = "failed to ping ClickHouse"
    /\ router.clickhouseClient = "nil"
    /\ req.path = "/api/v1/explore"
    /\ engine = <<>>

(* The connection succeeded and the logs route answered.                    *)
C30_WitnessMounted ==
    /\ pc = "done"
    /\ op = "GetTop100Logs"
    /\ router.err = "nil"
    /\ status = 200

============================================================================
